---- MODULE Spec2Model ----
(***************************************************************************)
(* The Kubernetes query pipeline of backend/app/features/k8s: the typed-   *)
(* API assistant (K8sAssistant, k8s_assistant.py) and the kubectl          *)
(* assistant (K8sLangGraphAssistant, k8s_langgraph_assistant.py).  Both    *)
(* run one LangGraph workflow per query:                                   *)
(*   security_check -> parse_intent -> resolve_resources ->                *)
(*   execute_kubectl -> enhance_response -> (format_output) -> END         *)
(* with an "error" edge out of security_check and parse_intent.            *)
(*                                                                         *)
(* Python strings are modelled by their characters: a TLA+ string names a  *)
(* text and CharsOf gives its characters, so that `in`, startswith, lower, *)
(* split and the regular expressions are computed on characters.           *)
(***************************************************************************)
EXTENDS Integers, Sequences, FiniteSets, TLC

-----------------------------------------------------------------------------
(* Python values that are not strings.                                     *)
(* Every Python string is a sequence of one-character strings; a message   *)
(* built from literals is a sequence whose elements are the literal pieces *)
(* and the characters of the values formatted into it.                     *)
NULL == <<"<None>">>        \* Python None / JSON null
ABSENT == <<"<absent>">>    \* a key the dict does not have
NUM == <<"<42>">>           \* a JSON number: truthy, and not a str
EMPTY == <<>>               \* the empty string ""

\* bool(x) of a value that is None, a missing key, a str or a number
Truthy(x) == x \notin {NULL, ABSENT, EMPTY}

\* isinstance(x, str)
IsStr(x) == x \notin {NULL, ABSENT, NUM}

-----------------------------------------------------------------------------
(* Strings.                                                                *)
Strs ==
    {"delete", "Delete", "patch", "create", "edit", "apply",
     "secret", "secrets", "role", "roles", "rolebinding", "rolebindings",
     "clusterrole", "clusterroles", "clusterrolebinding", "clusterrolebindings", "list", "all",
     "pods", "pod", "in", "kube-system", "show", "logs",
     "for", "backend", "describe", "svc", "get", "namespace",
     "default", "monitoring", "ingress-nginx", "cert-manager", "kube-public", "log",
     "desc", "details", "find", "service", "services", "deployment",
     "deployments", "deploy", "configmap", "configmaps", "cm", "ingress",
     "ing", "node", "nodes", "namespaces", "ns", "persistentvolume",
     "persistentvolumes", "pv", "persistentvolumeclaim", "persistentvolumeclaims", "pvc", "of",
     "the", "a", "an", "me", "name for", "prod",
     "my-app", "backend-deployment-7f9c", "Backend", "backend-api", "api-server", "web",
     "frontend", "front", "fe", "ui", "back", "be",
     "api", "server", "database", "db", "postgres", "mysql",
     "mongo", "redis", "cache", "session", "nginx", "proxy",
     "lb", "loadbalancer"}

CharsOf ==
    [s \in Strs |->
      CASE
         s = "delete" -> <<"d", "e", "l", "e", "t", "e">>
      [] s = "Delete" -> <<"D", "e", "l", "e", "t", "e">>
      [] s = "patch" -> <<"p", "a", "t", "c", "h">>
      [] s = "create" -> <<"c", "r", "e", "a", "t", "e">>
      [] s = "edit" -> <<"e", "d", "i", "t">>
      [] s = "apply" -> <<"a", "p", "p", "l", "y">>
      [] s = "secret" -> <<"s", "e", "c", "r", "e", "t">>
      [] s = "secrets" -> <<"s", "e", "c", "r", "e", "t", "s">>
      [] s = "role" -> <<"r", "o", "l", "e">>
      [] s = "roles" -> <<"r", "o", "l", "e", "s">>
      [] s = "rolebinding" -> <<"r", "o", "l", "e", "b", "i", "n", "d", "i", "n", "g">>
      [] s = "rolebindings" -> <<"r", "o", "l", "e", "b", "i", "n", "d", "i", "n", "g", "s">>
      [] s = "clusterrole" -> <<"c", "l", "u", "s", "t", "e", "r", "r", "o", "l", "e">>
      [] s = "clusterroles" -> <<"c", "l", "u", "s", "t", "e", "r", "r", "o", "l", "e", "s">>
      [] s = "clusterrolebinding" -> <<"c", "l", "u", "s", "t", "e", "r", "r", "o", "l", "e", "b", "i", "n", "d", "i", "n", "g">>
      [] s = "clusterrolebindings" -> <<"c", "l", "u", "s", "t", "e", "r", "r", "o", "l", "e", "b", "i", "n", "d", "i", "n", "g", "s">>
      [] s = "list" -> <<"l", "i", "s", "t">>
      [] s = "all" -> <<"a", "l", "l">>
      [] s = "pods" -> <<"p", "o", "d", "s">>
      [] s = "pod" -> <<"p", "o", "d">>
      [] s = "in" -> <<"i", "n">>
      [] s = "kube-system" -> <<"k", "u", "b", "e", "-", "s", "y", "s", "t", "e", "m">>
      [] s = "show" -> <<"s", "h", "o", "w">>
      [] s = "logs" -> <<"l", "o", "g", "s">>
      [] s = "for" -> <<"f", "o", "r">>
      [] s = "backend" -> <<"b", "a", "c", "k", "e", "n", "d">>
      [] s = "describe" -> <<"d", "e", "s", "c", "r", "i", "b", "e">>
      [] s = "svc" -> <<"s", "v", "c">>
      [] s = "get" -> <<"g", "e", "t">>
      [] s = "namespace" -> <<"n", "a", "m", "e", "s", "p", "a", "c", "e">>
      [] s = "default" -> <<"d", "e", "f", "a", "u", "l", "t">>
      [] s = "monitoring" -> <<"m", "o", "n", "i", "t", "o", "r", "i", "n", "g">>
      [] s = "ingress-nginx" -> <<"i", "n", "g", "r", "e", "s", "s", "-", "n", "g", "i", "n", "x">>
      [] s = "cert-manager" -> <<"c", "e", "r", "t", "-", "m", "a", "n", "a", "g", "e", "r">>
      [] s = "kube-public" -> <<"k", "u", "b", "e", "-", "p", "u", "b", "l", "i", "c">>
      [] s = "log" -> <<"l", "o", "g">>
      [] s = "desc" -> <<"d", "e", "s", "c">>
      [] s = "details" -> <<"d", "e", "t", "a", "i", "l", "s">>
      [] s = "find" -> <<"f", "i", "n", "d">>
      [] s = "service" -> <<"s", "e", "r", "v", "i", "c", "e">>
      [] s = "services" -> <<"s", "e", "r", "v", "i", "c", "e", "s">>
      [] s = "deployment" -> <<"d", "e", "p", "l", "o", "y", "m", "e", "n", "t">>
      [] s = "deployments" -> <<"d", "e", "p", "l", "o", "y", "m", "e", "n", "t", "s">>
      [] s = "deploy" -> <<"d", "e", "p", "l", "o", "y">>
      [] s = "configmap" -> <<"c", "o", "n", "f", "i", "g", "m", "a", "p">>
      [] s = "configmaps" -> <<"c", "o", "n", "f", "i", "g", "m", "a", "p", "s">>
      [] s = "cm" -> <<"c", "m">>
      [] s = "ingress" -> <<"i", "n", "g", "r", "e", "s", "s">>
      [] s = "ing" -> <<"i", "n", "g">>
      [] s = "node" -> <<"n", "o", "d", "e">>
      [] s = "nodes" -> <<"n", "o", "d", "e", "s">>
      [] s = "namespaces" -> <<"n", "a", "m", "e", "s", "p", "a", "c", "e", "s">>
      [] s = "ns" -> <<"n", "s">>
      [] s = "persistentvolume" -> <<"p", "e", "r", "s", "i", "s", "t", "e", "n", "t", "v", "o", "l", "u", "m", "e">>
      [] s = "persistentvolumes" -> <<"p", "e", "r", "s", "i", "s", "t", "e", "n", "t", "v", "o", "l", "u", "m", "e", "s">>
      [] s = "pv" -> <<"p", "v">>
      [] s = "persistentvolumeclaim" -> <<"p", "e", "r", "s", "i", "s", "t", "e", "n", "t", "v", "o", "l", "u", "m", "e", "c", "l", "a", "i", "m">>
      [] s = "persistentvolumeclaims" -> <<"p", "e", "r", "s", "i", "s", "t", "e", "n", "t", "v", "o", "l", "u", "m", "e", "c", "l", "a", "i", "m", "s">>
      [] s = "pvc" -> <<"p", "v", "c">>
      [] s = "of" -> <<"o", "f">>
      [] s = "the" -> <<"t", "h", "e">>
      [] s = "a" -> <<"a">>
      [] s = "an" -> <<"a", "n">>
      [] s = "me" -> <<"m", "e">>
      [] s = "name for" -> <<"n", "a", "m", "e", " ", "f", "o", "r">>
      [] s = "prod" -> <<"p", "r", "o", "d">>
      [] s = "my-app" -> <<"m", "y", "-", "a", "p", "p">>
      [] s = "backend-deployment-7f9c" -> <<"b", "a", "c", "k", "e", "n", "d", "-", "d", "e", "p", "l", "o", "y", "m", "e", "n", "t", "-", "7", "f", "9", "c">>
      [] s = "Backend" -> <<"B", "a", "c", "k", "e", "n", "d">>
      [] s = "backend-api" -> <<"b", "a", "c", "k", "e", "n", "d", "-", "a", "p", "i">>
      [] s = "api-server" -> <<"a", "p", "i", "-", "s", "e", "r", "v", "e", "r">>
      [] s = "web" -> <<"w", "e", "b">>
      [] s = "frontend" -> <<"f", "r", "o", "n", "t", "e", "n", "d">>
      [] s = "front" -> <<"f", "r", "o", "n", "t">>
      [] s = "fe" -> <<"f", "e">>
      [] s = "ui" -> <<"u", "i">>
      [] s = "back" -> <<"b", "a", "c", "k">>
      [] s = "be" -> <<"b", "e">>
      [] s = "api" -> <<"a", "p", "i">>
      [] s = "server" -> <<"s", "e", "r", "v", "e", "r">>
      [] s = "database" -> <<"d", "a", "t", "a", "b", "a", "s", "e">>
      [] s = "db" -> <<"d", "b">>
      [] s = "postgres" -> <<"p", "o", "s", "t", "g", "r", "e", "s">>
      [] s = "mysql" -> <<"m", "y", "s", "q", "l">>
      [] s = "mongo" -> <<"m", "o", "n", "g", "o">>
      [] s = "redis" -> <<"r", "e", "d", "i", "s">>
      [] s = "cache" -> <<"c", "a", "c", "h", "e">>
      [] s = "session" -> <<"s", "e", "s", "s", "i", "o", "n">>
      [] s = "nginx" -> <<"n", "g", "i", "n", "x">>
      [] s = "proxy" -> <<"p", "r", "o", "x", "y">>
      [] s = "lb" -> <<"l", "b">>
      [] s = "loadbalancer" -> <<"l", "o", "a", "d", "b", "a", "l", "a", "n", "c", "e", "r">>]

Chars(s) == CharsOf[s]

UpperAlpha == <<"A","B","C","D","E","F","G","H","I","J","K","L","M",
                "N","O","P","Q","R","S","T","U","V","W","X","Y","Z">>
LowerAlpha == <<"a","b","c","d","e","f","g","h","i","j","k","l","m",
                "n","o","p","q","r","s","t","u","v","w","x","y","z">>

\* str.lower(), one character
LowerChar(c) ==
    IF \E i \in 1..26 : UpperAlpha[i] = c
    THEN LowerAlpha[CHOOSE i \in 1..26 : UpperAlpha[i] = c]
    ELSE c

\* str.lower()
Lower(t) == [i \in 1..Len(t) |-> LowerChar(t[i])]

\* `needle in hay` on strings (h, n: the two values, taken once)
Contains(hay, needle) ==
    \E h \in {hay}, n \in {needle} :
        \E i \in 0..(Len(h) - Len(n)) : SubSeq(h, i + 1, i + Len(n)) = n

\* hay.startswith(prefix)
StartsWith(hay, prefix) ==
    \E h \in {hay}, n \in {prefix} :
        /\ Len(n) <= Len(h)
        /\ SubSeq(h, 1, Len(n)) = n

\* hay.endswith(suffix)
EndsWith(hay, suffix) ==
    \E h \in {hay}, n \in {suffix} :
        /\ Len(n) <= Len(h)
        /\ SubSeq(h, Len(h) - Len(n) + 1, Len(h)) = n

\* hay.count(c) for a single character c
CountChar(hay, c) == Cardinality({i \in 1..Len(hay) : hay[i] = c})

\* " ".join(words): the text of a query given as its words
RECURSIVE JoinWords(_)
JoinWords(ws) ==
    IF Len(ws) = 0 THEN <<>>
    ELSE IF Len(ws) = 1 THEN Chars(ws[1])
    ELSE Chars(ws[1]) \o <<" ">> \o JoinWords(Tail(ws))

\* the query text as typed, with no case folding
QueryRaw(q) == JoinWords(q)

\* query.lower()
QueryLower(q) == Lower(JoinWords(q))

\* the first element of a Python list (given as a sequence) satisfying Test
FirstOf(list, Test(_)) ==
    list[CHOOSE i \in 1..Len(list) :
            /\ Test(list[i])
            /\ \A j \in 1..(i - 1) : ~Test(list[j])]

AnyOf(list, Test(_)) == \E i \in 1..Len(list) : Test(list[i])

-----------------------------------------------------------------------------
(* Lexicons.                                                               *)
K8sAssistant == "K8sAssistant"
K8sLangGraphAssistant == "K8sLangGraphAssistant"
Impls == {K8sAssistant, K8sLangGraphAssistant}

supported_resources ==
    <<Chars("pods"), Chars("services"), Chars("deployments"),
      Chars("configmaps"), Chars("ingress"), Chars("nodes"),
      Chars("namespaces"), Chars("persistentvolumes"),
      Chars("persistentvolumeclaims")>>

supported_actions ==
    <<Chars("list"), Chars("get"), Chars("describe"), Chars("logs")>>

banned_actions ==
    <<Chars("delete"), Chars("edit"), Chars("patch"), Chars("apply"),
      Chars("create")>>

\* K8sAssistant._security_check_node: the dict flattened in iteration order
restricted_patterns ==
    <<Chars("secret"), Chars("secrets"),
      Chars("role"), Chars("roles"), Chars("rolebinding"),
      Chars("rolebindings"),
      Chars("clusterrole"), Chars("clusterroles"),
      Chars("clusterrolebinding"), Chars("clusterrolebindings")>>

\* K8sLangGraphAssistant.__init__
restricted_resources ==
    <<Chars("secrets"), Chars("roles"), Chars("clusterroles")>>

\* K8sAssistant._validate_intent
restricted_resource_types ==
    <<Chars("secrets"), Chars("secret"), Chars("roles"), Chars("role"),
      Chars("clusterroles"), Chars("clusterrole")>>

InList(x, list) == \E i \in 1..Len(list) : list[i] = x

-----------------------------------------------------------------------------
(* Messages.                                                               *)
SecurityWarning(banned) ==
    <<"Security Warning: '">> \o banned
        \o <<"' operations are not allowed for safety reasons.">>

AccessDenied(pattern) ==
    <<"Access Denied: '">> \o pattern
        \o <<"' resources are restricted for security reasons.">>

ReadOnlySuggestion ==
    <<"You can only perform read-only operations like 'list', 'get', 'describe', and 'logs'.">>

OtherResourcesSuggestion ==
    <<"Try querying other resources like pods, services, deployments, configmaps, or ingress instead.">>

-----------------------------------------------------------------------------
(* security_check: the verdict on the raw query text.                      *)
RestrictedList(impl) ==
    IF impl = K8sAssistant THEN restricted_patterns ELSE restricted_resources

\* the first token of list that query_lower contains, or NULL
FirstContained(query_lower, list) ==
    LET In(tok) == Contains(query_lower, tok)
    IN  IF AnyOf(list, In) THEN FirstOf(list, In) ELSE NULL

\* the verdict, given the first banned and the first restricted token found
Verdict(banned, restricted) ==
    IF banned # NULL
    THEN [blocked |-> TRUE, kind |-> "banned_action", token |-> banned]
    ELSE IF restricted # NULL
    THEN [blocked |-> TRUE, kind |-> "restricted_resource",
          token |-> restricted]
    ELSE [blocked |-> FALSE, kind |-> "none", token |-> EMPTY]

SecurityVerdict(impl, q) ==
    Verdict(FirstContained(QueryLower(q), banned_actions),
            FirstContained(QueryLower(q), RestrictedList(impl)))

-----------------------------------------------------------------------------
(* Intents.  A dict is a record whose missing keys hold ABSENT.            *)
NoIntent ==
    [resource_type |-> ABSENT, action |-> ABSENT, resource_name |-> ABSENT,
     namespace |-> ABSENT, additional_flags |-> ABSENT, error |-> ABSENT,
     extra_keys |-> FALSE, resolved_from |-> ABSENT,
     other_matches |-> ABSENT, resolution_note |-> ABSENT]

MkIntent(rt, act, name, ns) ==
    [NoIntent EXCEPT !.resource_type = rt, !.action = act,
                     !.resource_name = name, !.namespace = ns,
                     !.additional_flags = EMPTY]

\* the least index in 1..n satisfying P, or 0
FirstIndex(n, P(_)) ==
    IF \E i \in 1..n : P(i)
    THEN CHOOSE i \in 1..n : P(i) /\ \A j \in 1..(i - 1) : ~P(j)
    ELSE 0

-----------------------------------------------------------------------------
(* _validate_intent                                                        *)
\* a normalisation that leaves an unsupported name as it is
ResourceMapKeep(impl, rt) == rt

resource_map(impl, rt) ==
    CASE rt = Chars("pod") -> Chars("pods")
      [] rt = Chars("svc") -> Chars("services")
      [] rt = Chars("deploy") -> Chars("deployments")
      [] rt = Chars("deployment") -> Chars("deployments")
      [] rt = Chars("cm") -> Chars("configmaps")
      [] rt = Chars("pv") -> Chars("persistentvolumes")
      [] rt = Chars("persistentvolume") /\ impl = K8sAssistant
            -> Chars("persistentvolumes")
      [] rt = Chars("pvc") -> Chars("persistentvolumeclaims")
      [] rt = Chars("persistentvolumeclaim") /\ impl = K8sAssistant
            -> Chars("persistentvolumeclaims")
      [] OTHER -> Chars("pods")

RestrictedTypes(impl) ==
    IF impl = K8sAssistant THEN restricted_resource_types
    ELSE restricted_resources

DeniedMessage(impl, rt) ==
    IF impl = K8sAssistant THEN AccessDenied(rt)
    ELSE <<"Access denied to ">> \o rt

BannedMessage(impl, act) ==
    IF impl = K8sAssistant THEN SecurityWarning(act)
    ELSE <<"Action ">> \o act \o <<" is not allowed">>

\* setdefault of the five keys
WithDefaults(obj) ==
    [obj EXCEPT
      !.resource_type = IF @ = ABSENT THEN Chars("pods") ELSE @,
      !.action = IF @ = ABSENT THEN Chars("list") ELSE @,
      !.resource_name = IF @ = ABSENT THEN NULL ELSE @,
      !.namespace = IF @ = ABSENT THEN NULL ELSE @,
      !.additional_flags = IF @ = ABSENT THEN EMPTY ELSE @]

\* the security checks and the sanitising, on the dict d with its defaults
Validated(impl, d) ==
    IF InList(d.resource_type, RestrictedTypes(impl))
    THEN [raised |-> TRUE, msg |-> DeniedMessage(impl, d.resource_type),
          intent |-> NoIntent]
    ELSE IF InList(d.action, banned_actions)
    THEN [raised |-> TRUE, msg |-> BannedMessage(impl, d.action),
          intent |-> NoIntent]
    ELSE [raised |-> FALSE, msg |-> EMPTY,
          intent |->
            IF InList(d.resource_type, supported_resources) THEN d
            ELSE [d EXCEPT !.resource_type = resource_map(impl, @)]]

\* the validated intent, or the ValueError raised
ValidateIntent(impl, obj) == Validated(impl, WithDefaults(obj))

-----------------------------------------------------------------------------
(* Regular expressions of _fallback_parse.  An expression is a sequence of *)
(* items: a literal, \s+ or \w+.  Neighbouring items never accept the same *)
(* character, so the greedy match from a start position is the only one.   *)
Digits == {"0","1","2","3","4","5","6","7","8","9"}

IsWordChar(c) ==
    \/ \E i \in 1..26 : c = LowerAlpha[i] \/ c = UpperAlpha[i]
    \/ c \in Digits
    \/ c = "_"

IsSpaceChar(c) == c = " "

Lit(str) == [k |-> "lit", v |-> Chars(str)]
Spaces == [k |-> "s+", v |-> EMPTY]
Word == [k |-> "w+", v |-> EMPTY]
Hyphen == [k |-> "lit", v |-> <<"-">>]

\* the last position of the longest run of characters satisfying Cls that
\* starts at p (p - 1 when there is none); cls is "s+" or "w+"
InClass(cls, c) == IF cls = "s+" THEN IsSpaceChar(c) ELSE IsWordChar(c)

RECURSIVE RunEnd(_, _, _)
RunEnd(t, p, cls) ==
    IF p <= Len(t) /\ InClass(cls, t[p]) THEN RunEnd(t, p + 1, cls)
    ELSE p - 1

\* the last position matched by one item at p, or -1
ItemEnd(item, t, p) ==
    CASE item.k = "lit" ->
            IF /\ p + Len(item.v) - 1 <= Len(t)
               /\ SubSeq(t, p, p + Len(item.v) - 1) = item.v
            THEN p + Len(item.v) - 1 ELSE -1
      [] OTHER ->
            IF RunEnd(t, p, item.k) >= p THEN RunEnd(t, p, item.k) ELSE -1

\* the end positions of items k.. matched from p on; <<-1>> on failure
RECURSIVE MatchEnds(_, _, _, _)
MatchEnds(items, k, t, p) ==
    IF k > Len(items) THEN <<>>
    ELSE LET e == ItemEnd(items[k], t, p)
         IN  IF e = -1 THEN <<-1>>
             ELSE LET rest == MatchEnds(items, k + 1, t, e + 1)
                  IN  IF rest = <<-1>> THEN <<-1>> ELSE <<e>> \o rest

\* re.search(pattern, t).group(1) where the group spans items capFrom..capTo;
\* NULL when there is no match
GroupOf(capFrom, capTo, t, start, ends) ==
    SubSeq(t, IF capFrom = 1 THEN start ELSE ends[capFrom - 1] + 1,
           ends[capTo])

GroupAt(items, capFrom, capTo, t, start) ==
    IF start = 0 THEN NULL
    ELSE GroupOf(capFrom, capTo, t, start, MatchEnds(items, 1, t, start))

RegexGroup(items, capFrom, capTo, t) ==
    LET Hit(i) == MatchEnds(items, 1, t, i) # <<-1>>
    IN  GroupAt(items, capFrom, capTo, t, FirstIndex(Len(t), Hit))

\* namespace_patterns, with the items of each capture group
namespace_patterns ==
    << [items |-> <<Lit("in"), Spaces, Word, Spaces, Lit("namespace")>>,
        capFrom |-> 3, capTo |-> 3],
       [items |-> <<Lit("namespace"), Spaces, Word>>,
        capFrom |-> 3, capTo |-> 3],
       [items |-> <<Lit("in"), Spaces, Lit("namespace"), Spaces, Word>>,
        capFrom |-> 5, capTo |-> 5],
       [items |-> <<Lit("pods"), Spaces, Lit("in"), Spaces, Word>>,
        capFrom |-> 5, capTo |-> 5],
       [items |-> <<Lit("in"), Spaces, Word, Hyphen, Word>>,
        capFrom |-> 3, capTo |-> 5] >>

-----------------------------------------------------------------------------
(* K8sAssistant._fallback_parse                                            *)
ContainsAny(text, list) == \E i \in 1..Len(list) : Contains(text, list[i])

FallbackAction(query_lower) ==
    IF ContainsAny(query_lower, <<Chars("logs"), Chars("log")>>)
    THEN Chars("logs")
    ELSE IF ContainsAny(query_lower,
                <<Chars("describe"), Chars("desc"), Chars("details")>>)
    THEN Chars("describe")
    ELSE IF ContainsAny(query_lower,
                <<Chars("get"), Chars("show"), Chars("find")>>)
    THEN IF ~Contains(query_lower, Chars("logs")) THEN Chars("get")
         ELSE Chars("logs")
    ELSE IF Contains(query_lower, Chars("delete")) THEN Chars("delete")
    ELSE Chars("list")

resource_patterns ==
    << [resource |-> Chars("pods"),
        patterns |-> <<Chars("pod"), Chars("pods")>>],
       [resource |-> Chars("services"),
        patterns |-> <<Chars("service"), Chars("services"), Chars("svc")>>],
       [resource |-> Chars("deployments"),
        patterns |-> <<Chars("deployment"), Chars("deployments"),
                       Chars("deploy")>>],
       [resource |-> Chars("configmaps"),
        patterns |-> <<Chars("configmap"), Chars("configmaps"), Chars("cm")>>],
       [resource |-> Chars("ingress"),
        patterns |-> <<Chars("ingress"), Chars("ing")>>],
       [resource |-> Chars("nodes"),
        patterns |-> <<Chars("node"), Chars("nodes")>>],
       [resource |-> Chars("namespaces"),
        patterns |-> <<Chars("namespace"), Chars("namespaces"), Chars("ns")>>],
       [resource |-> Chars("persistentvolumes"),
        patterns |-> <<Chars("persistentvolume"), Chars("persistentvolumes"),
                       Chars("pv")>>],
       [resource |-> Chars("persistentvolumeclaims"),
        patterns |-> <<Chars("persistentvolumeclaim"),
                       Chars("persistentvolumeclaims"), Chars("pvc")>>] >>

FallbackResourceType(query_lower) ==
    LET Hit(i) == ContainsAny(query_lower, resource_patterns[i].patterns)
        k == FirstIndex(Len(resource_patterns), Hit)
    IN  IF k = 0 THEN Chars("pods") ELSE resource_patterns[k].resource

common_namespaces ==
    <<Chars("kube-system"), Chars("default"), Chars("monitoring"),
      Chars("ingress-nginx"), Chars("cert-manager"), Chars("kube-public")>>

\* a if it is a value, else b
OrElse(a, b) == IF a # NULL THEN a ELSE b

\* list[k], or NULL when k = 0
AtOrNull(list, k) == IF k = 0 THEN NULL ELSE list[k]

\* pass 1: " in <ns>" for a known namespace
NamespaceAfterIn(query_lower) ==
    LET InNs(i) ==
            \/ Contains(query_lower,
                        <<" ", "i", "n", " ">> \o common_namespaces[i])
            \/ Contains(query_lower, <<"i", "n", " ">> \o common_namespaces[i])
    IN  IF Contains(query_lower, <<" ", "i", "n", " ">>)
        THEN AtOrNull(common_namespaces,
                      FirstIndex(Len(common_namespaces), InNs))
        ELSE NULL

\* pass 2: a known namespace as a whole token
NamespaceToken(query_lower) ==
    LET Token(i) ==
            /\ Contains(query_lower, common_namespaces[i])
            /\ \/ Contains(query_lower,
                           <<" ">> \o common_namespaces[i] \o <<" ">>)
               \/ EndsWith(query_lower, common_namespaces[i])
               \/ StartsWith(query_lower, common_namespaces[i])
    IN  AtOrNull(common_namespaces, FirstIndex(Len(common_namespaces), Token))

\* pass 3: the group of the first of namespace_patterns[k..] that matches
RECURSIVE NamespaceRegex(_, _)
NamespaceRegex(k, query_lower) ==
    IF k > Len(namespace_patterns) THEN NULL
    ELSE OrElse(RegexGroup(namespace_patterns[k].items,
                           namespace_patterns[k].capFrom,
                           namespace_patterns[k].capTo, query_lower),
                NamespaceRegex(k + 1, query_lower))

\* the three namespace passes: " in <ns>", a whole-token literal, the regexes
FallbackNamespace(query_lower) ==
    OrElse(NamespaceAfterIn(query_lower),
           OrElse(NamespaceToken(query_lower),
                  NamespaceRegex(1, query_lower)))

\* word.lower() in list
LowerIn(word, list) == InList(Lower(Chars(word)), list)

resource_words == <<Chars("pod"), Chars("service"), Chars("deployment")>>
stop_words ==
    <<Chars("the"), Chars("a"), Chars("an"), Chars("all"), Chars("me"),
      Chars("show")>>

\* words[k + offset], or NULL when k = 0
WordAt(words, k, offset) == IF k = 0 THEN NULL ELSE Chars(words[k + offset])

\* pass (a): "for <name> pod"
NameAfterForOf(words) ==
    LET ForOf(i) ==
            /\ LowerIn(words[i], <<Chars("for"), Chars("of")>>)
            /\ i + 1 <= Len(words)
            /\ ~LowerIn(words[i + 1], common_namespaces)
            /\ i + 2 <= Len(words)
            /\ LowerIn(words[i + 2], resource_words)
    IN  WordAt(words, FirstIndex(Len(words), ForOf), 1)

\* words[i] is a resource word that has a word before it
IsResourceWord(words, i) == LowerIn(words[i], resource_words) /\ i > 1

\* the word before a resource word is taken as the name
NameBefore(words, i) ==
    /\ IsResourceWord(words, i)
    /\ ~LowerIn(words[i - 1], common_namespaces)
    /\ ~LowerIn(words[i - 1], stop_words)

\* pass (b): "<name> pod", or a long hyphenated word
NameBeforeOrHyphenated(words) ==
    LET Hit(i) ==
            \/ NameBefore(words, i)
            \/ /\ ~IsResourceWord(words, i)
               /\ Contains(Chars(words[i]), <<"-">>)
               /\ Len(Chars(words[i])) > 10
               /\ ~LowerIn(words[i], common_namespaces)
        At(k) == IF k # 0 /\ NameBefore(words, k) THEN WordAt(words, k, -1)
                 ELSE WordAt(words, k, 0)
    IN  At(FirstIndex(Len(words), Hit))

\* pass (c): "name for <name>"
NameAfterNameFor(words, query_lower) ==
    LET NameFor(i) ==
            /\ Lower(Chars(words[i])) = Chars("for")
            /\ i + 1 <= Len(words)
            /\ ~LowerIn(words[i + 1], common_namespaces)
    IN  IF Contains(query_lower, Chars("name for"))
        THEN WordAt(words, FirstIndex(Len(words), NameFor), 1)
        ELSE NULL

\* the three resource-name passes over words = query.split()
FallbackResourceName(words, query_lower, namespace) ==
    IF /\ Truthy(namespace)
       /\ Contains(query_lower, <<" ", "i", "n", " ">> \o namespace)
    THEN NULL
    ELSE OrElse(NameAfterForOf(words),
                OrElse(NameBeforeOrHyphenated(words),
                       NameAfterNameFor(words, query_lower)))

FallbackIntentApi(q, query_lower, namespace) ==
    MkIntent(FallbackResourceType(query_lower),
             FallbackAction(query_lower),
             FallbackResourceName(q, query_lower, namespace),
             namespace)

FallbackParseApi(q) ==
    FallbackIntentApi(q, QueryLower(q), FallbackNamespace(QueryLower(q)))

(* K8sLangGraphAssistant._fallback_parse                                   *)
FallbackParseCli(q) ==
    LET query_lower == QueryLower(q)
        Has(str) == Contains(query_lower, Chars(str))
        action ==
            IF Has("logs") THEN Chars("logs")
            ELSE IF Has("describe") THEN Chars("describe")
            ELSE IF Has("get") \/ Has("show") THEN Chars("get")
            ELSE Chars("list")
        resource_type ==
            IF Has("service") \/ Has("svc") THEN Chars("services")
            ELSE IF Has("deployment") \/ Has("deploy")
            THEN Chars("deployments")
            ELSE IF Has("configmap") \/ Has("cm") THEN Chars("configmaps")
            ELSE IF Has("pv") /\ ~Has("pvc") THEN Chars("persistentvolumes")
            ELSE IF Has("pvc") THEN Chars("persistentvolumeclaims")
            ELSE Chars("pods")
    IN  MkIntent(resource_type, action, NULL, NULL)

-----------------------------------------------------------------------------
(* What the collaborators may answer.                                      *)

\* JSON objects the completion may carry (keys it omits hold ABSENT)
LLMObjects ==
    { NoIntent,
      [NoIntent EXCEPT !.resource_type = Chars("pods"),
                       !.action = Chars("logs"),
                       !.resource_name = Chars("backend"),
                       !.namespace = NULL, !.additional_flags = EMPTY],
      [NoIntent EXCEPT !.resource_type = Chars("secrets"),
                       !.action = Chars("get")],
      [NoIntent EXCEPT !.resource_type = Chars("pods"),
                       !.action = Chars("delete")],
      [NoIntent EXCEPT !.resource_type = Chars("svc"),
                       !.action = Chars("describe"),
                       !.resource_name = NUM,
                       !.namespace = Chars("kube-system")],
      [NoIntent EXCEPT !.resource_type = Chars("configmaps"),
                       !.action = Chars("get"),
                       !.resource_name = Chars("web")],
      [NoIntent EXCEPT !.action = Chars("list"),
                       !.error = <<"could not parse">>] }

\* get_text_completion in parse: raises, or returns a text without "{...}",
\* with a "{...}" that json.loads rejects, or with a JSON object
LLMParseOutcomes ==
    { [kind |-> k, obj |-> NoIntent] : k \in {"raise", "no_json", "bad_json"} }
    \cup { [kind |-> "json", obj |-> o] : o \in LLMObjects }

\* the live name lists the cluster may return
LiveLists ==
    { EMPTY,
      <<Chars("backend-deployment-7f9c"), Chars("backend-api"), Chars("web")>>,
      <<Chars("api-server"), Chars("Backend")>> }

ListOutcomes ==
    { [kind |-> "names", names |-> l] : l \in LiveLists }
    \cup { [kind |-> k, names |-> EMPTY] : k \in {"api_error", "exception"} }

\* texts a successful backend call may carry (pod logs, kubectl stdout)
OutTexts ==
    { EMPTY, <<"NAME READY STATUS">>, <<"Error:", " connection refused">> }

\* the backend call of execute: an answer, a structured failure with its
\* reason (ApiException.reason, kubectl's stderr), a timeout, no backend
ExecOutcomes ==
    { [kind |-> "ok", text |-> t] : t \in OutTexts }
    \cup { [kind |-> "api_error", text |-> r] :
              r \in {<<"Not Found">>, EMPTY} }
    \cup { [kind |-> k, text |-> EMPTY] : k \in {"timeout", "unavailable"} }

\* get_text_completion in enhance
LLMEnhanceOutcomes ==
    { [kind |-> "ok", text |-> <<"Summary of the output">>],
      [kind |-> "raise", text |-> EMPTY] }

-----------------------------------------------------------------------------
(* The queries.                                                            *)
MaxWords == 2

Vocab ==
    {"Delete", "secret", "rolebindings", "list", "logs", "pod", "backend",
     "kube-system"}

ScenarioQueries ==
    { <<"list", "all", "pods">>,
      <<"pods", "in", "kube-system">>,
      <<"show", "logs", "for", "backend", "pod">>,
      <<"delete", "pod", "backend">>,
      <<"patch", "deployment", "web">>,
      <<"describe", "svc", "backend">>,
      <<"show", "secrets">>,
      <<"backend", "pod", "in", "kube-system">>,
      <<"logs", "for", "backend", "pod", "in", "default">> }

RECURSIVE WordSeqs(_)
WordSeqs(n) ==
    IF n = 0 THEN {<<>>}
    ELSE {Append(q, w) : q \in WordSeqs(n - 1), w \in Vocab}

Queries ==
    ScenarioQueries \cup UNION {WordSeqs(n) : n \in 1..MaxWords}

\* the verdict is a pure function of the query text: its value for every
\* query of each class, computed once
VerdictTable == [i \in Impls |-> [q \in Queries |-> SecurityVerdict(i, q)]]

\* _fallback_parse is a pure function of the query: its value for every
\* query of each class, computed once
FallbackTable ==
    [i \in Impls |->
        [q \in Queries |->
            IF i = K8sAssistant THEN FallbackParseApi(q)
            ELSE FallbackParseCli(q)]]

\* a rule-based parser that is handed a fixed text instead of the query
FallbackOfFixedText(i, q) == FallbackTable[i][<<"list">>]

_fallback_parse(i, q) == FallbackTable[i][q]

-----------------------------------------------------------------------------
(* Calls to the collaborators and runs of the rule-based parser, as they   *)
(* are logged in `calls`.                                                  *)
\* `said` is the JSON object a completion carried, or the intent the
\* rule-based parser returned; `listed` the names a list call returned
LLMCall(stage) ==
    [svc |-> "llm", stage |-> stage, op |-> "complete", rtype |-> NULL,
     ns |-> NULL, name |-> NULL, result |-> "pending", said |-> NoIntent,
     listed |-> EMPTY, text |-> EMPTY]

ClusterCall(stage, op, rtype, ns, name) ==
    [svc |-> "cluster", stage |-> stage, op |-> op, rtype |-> rtype,
     ns |-> ns, name |-> name, result |-> "pending", said |-> NoIntent,
     listed |-> EMPTY, text |-> EMPTY]

\* a run of self._fallback_parse(query), logged with the intent it returned
FallbackRun(i, q) ==
    [svc |-> "local", stage |-> "fallback", op |-> "_fallback_parse",
     rtype |-> NULL, ns |-> NULL, name |-> NULL, result |-> "returned",
     said |-> _fallback_parse(i, q), listed |-> EMPTY, text |-> EMPTY]

\* the calls of a stage, each with the way it ended and the text it carried
Answered(cs, out) ==
    [i \in 1..Len(cs) |->
        [cs[i] EXCEPT !.result = out.kind, !.text = out.text]]

\* the list calls of Resolve, each with the way it ended and the names it
\* returned
AnsweredList(cs, out) ==
    [i \in 1..Len(cs) |->
        [cs[i] EXCEPT !.result = out.kind, !.listed = out.names]]

-----------------------------------------------------------------------------
(* parse_intent                                                            *)
IsSecurityMessage(msg) ==
    \E i \in 1..Len(msg) :
        msg[i] \in {"Access Denied: '", "Security Warning: '"}

\* K8sAssistant._parse_intent: the dict it returns for a completion
ParsedOrErrorApi(v, fallback) ==
    IF ~v.raised THEN v.intent
    ELSE IF IsSecurityMessage(v.msg)
    THEN [NoIntent EXCEPT !.error = v.msg, !.extra_keys = TRUE]
    ELSE fallback

ParseIntentApi(q, llm) ==
    IF llm.kind # "json" THEN _fallback_parse(K8sAssistant, q)
    ELSE ParsedOrErrorApi(ValidateIntent(K8sAssistant, llm.obj),
                          _fallback_parse(K8sAssistant, q))

\* K8sLangGraphAssistant._parse_intent_node: the intent it stores; every
\* exception of the LLM path (completion, json, validation, K8sIntent(**))
\* is answered by the rule-based parser
ParsedOrFallbackCli(v, fallback) ==
    IF v.raised THEN fallback
    ELSE IF v.intent.error # ABSENT \/ v.intent.extra_keys THEN fallback
    ELSE v.intent

ParseIntentCli(q, llm) ==
    ParsedOrFallbackCli(
        IF llm.kind = "json"
        THEN ValidateIntent(K8sLangGraphAssistant, llm.obj)
        ELSE [raised |-> TRUE, msg |-> EMPTY, intent |-> NoIntent],
        _fallback_parse(K8sLangGraphAssistant, q))

-----------------------------------------------------------------------------
(* resolve_resources                                                       *)
fuzzy_patterns ==
    << [key |-> Chars("frontend"),
        patterns |-> <<Chars("front"), Chars("fe"), Chars("ui"),
                       Chars("web")>>],
       [key |-> Chars("backend"),
        patterns |-> <<Chars("back"), Chars("be"), Chars("api"),
                       Chars("server")>>],
       [key |-> Chars("database"),
        patterns |-> <<Chars("db"), Chars("postgres"), Chars("mysql"),
                       Chars("mongo")>>],
       [key |-> Chars("redis"),
        patterns |-> <<Chars("cache"), Chars("session")>>],
       [key |-> Chars("nginx"),
        patterns |-> <<Chars("proxy"), Chars("lb"),
                       Chars("loadbalancer")>>] >>

\* [x for x in list if Test(x)]
RECURSIVE Filter(_, _)
Filter(list, keep) ==
    IF Len(list) = 0 THEN <<>>
    ELSE IF Head(list) \in keep THEN <<Head(list)>> \o Filter(Tail(list), keep)
    ELSE Filter(Tail(list), keep)

NamesOf(list) == {list[i] : i \in 1..Len(list)}

\* Strategy 4: the names a category of fuzzy_patterns accepts
FuzzyHit(name, partial_name) ==
    \E k \in 1..Len(fuzzy_patterns) :
        /\ \/ fuzzy_patterns[k].key = partial_name
           \/ InList(partial_name, fuzzy_patterns[k].patterns)
        /\ \/ Contains(Lower(name), fuzzy_patterns[k].key)
           \/ ContainsAny(Lower(name), fuzzy_patterns[k].patterns)

\* min(matches, key=len): the first of the shortest
MinByLen(matches) ==
    matches[CHOOSE i \in 1..Len(matches) :
        /\ \A j \in 1..Len(matches) : Len(matches[i]) <= Len(matches[j])
        /\ \A j \in 1..(i - 1) : Len(matches[j]) > Len(matches[i])]

\* matches[1:5]
Slice1To5(matches) ==
    SubSeq(matches, 2, IF Len(matches) < 5 THEN Len(matches) ELSE 5)

\* a if it is not empty, else b
FirstNonEmpty(a, b) == IF a # <<>> THEN a ELSE b

\* the matches of strategies 2 to 4, the first non-empty one
CollectMatches(resource_names, partial_name) ==
    FirstNonEmpty(
        Filter(resource_names,
            {x \in NamesOf(resource_names) :
                StartsWith(Lower(x), partial_name)}),
        FirstNonEmpty(
            Filter(resource_names,
                {x \in NamesOf(resource_names) :
                    Contains(Lower(x), partial_name)}),
            Filter(resource_names,
                {x \in NamesOf(resource_names) : FuzzyHit(x, partial_name)})))

\* a "Return best match" that also writes the namespace it listed into the
\* intent
BestMatchWritingNamespace(intent, partial_name, matches) ==
    IF matches # <<>>
    THEN [intent EXCEPT
            !.resource_name = MinByLen(matches),
            !.resolved_from = partial_name,
            !.namespace = IF @ = NULL THEN Chars("default") ELSE @,
            !.other_matches =
                IF Len(matches) > 1 THEN Slice1To5(matches) ELSE @]
    ELSE [intent EXCEPT
            !.resolution_note =
                <<"No match found for '">> \o partial_name
                    \o <<"'. Available: ">>]

\* "Return best match", or the note when nothing matched
BestMatch(intent, partial_name, matches) ==
    IF matches # <<>>
    THEN [intent EXCEPT
            !.resource_name = MinByLen(matches),
            !.resolved_from = partial_name,
            !.other_matches =
                IF Len(matches) > 1 THEN Slice1To5(matches) ELSE @]
    ELSE [intent EXCEPT
            !.resolution_note =
                <<"No match found for '">> \o partial_name
                    \o <<"'. Available: ">>]

\* the matching part of _resolve_resource_names, for a non-empty name list
MatchNames(intent, resource_names, partial_name) ==
    LET Exact(x) == Lower(x) = partial_name
    IN  IF AnyOf(resource_names, Exact)
        THEN [intent EXCEPT !.resource_name = FirstOf(resource_names, Exact)]
        ELSE BestMatch(intent, partial_name,
                       CollectMatches(resource_names, partial_name))

\* the list call of _resolve_resource_names for a resource type
NamespacedLists ==
    <<Chars("pods"), Chars("services"), Chars("deployments"),
      Chars("configmaps"), Chars("persistentvolumeclaims")>>

ClusterLists == <<Chars("nodes"), Chars("namespaces")>>

\* the list call of _resolve_resource_names, if the type has one
ListCallApi(intent) ==
    IF InList(intent.resource_type, NamespacedLists)
    THEN <<ClusterCall("resolve", "list", intent.resource_type,
                       intent.namespace, NULL)>>
    ELSE IF InList(intent.resource_type, ClusterLists)
    THEN <<ClusterCall("resolve", "list", intent.resource_type, NULL, NULL)>>
    ELSE <<>>

Resolved(intent, cs) == [raised |-> FALSE, intent |-> intent, calls |-> cs]

\* the try block of _resolve_resource_names when the list call `call`
\* ends in `out`
ResolveWithList(intent, partial_name, call, out) ==
    IF call = <<>> THEN Resolved(intent, <<>>)
    ELSE IF out.kind = "api_error"
    THEN Resolved([intent EXCEPT !.resolution_note =
                     <<"API error while resolving resource names: ">>], call)
    ELSE IF out.kind = "exception"
    THEN Resolved([intent EXCEPT !.resolution_note =
                     <<"Error resolving resource names: ">>], call)
    ELSE IF out.names = <<>> THEN Resolved(intent, call)
    ELSE Resolved(MatchNames(intent, out.names, partial_name), call)

\* K8sAssistant._resolve_resource_names: what it does for an intent when
\* the list call, if one is made, ends in `out`
ResolveApi(intent, out) ==
    IF ~Truthy(intent.resource_name) THEN Resolved(intent, <<>>)
    ELSE IF ~IsStr(intent.resource_name)
    THEN [raised |-> TRUE, intent |-> intent, calls |-> <<>>]
    ELSE IF /\ Len(intent.resource_name) > 20
            /\ CountChar(intent.resource_name, "-") >= 3
    THEN Resolved(intent, <<>>)
    ELSE ResolveWithList(intent, Lower(intent.resource_name),
                         ListCallApi(intent), out)

\* the kubectl get -o name of _resolve_resource_name
ListCallCli(intent) ==
    <<ClusterCall("resolve", "list", intent.resource_type,
                  IF Truthy(intent.namespace) THEN intent.namespace ELSE NULL,
                  NULL)>>

\* K8sLangGraphAssistant._resolve_resources_node with _resolve_resource_name
ResolveCli(intent, out) ==
    LET Match(x) == Contains(Lower(x), Lower(intent.resource_name))
    IN  IF intent = NoIntent \/ ~Truthy(intent.resource_name)
        THEN Resolved(intent, <<>>)
        ELSE IF ~IsStr(intent.resource_name) THEN Resolved(intent, <<>>)
        ELSE IF Len(intent.resource_name) > 20 THEN Resolved(intent, <<>>)
        ELSE IF out.kind = "names" /\ AnyOf(out.names, Match)
        THEN Resolved([intent EXCEPT
                         !.resource_name = FirstOf(out.names, Match)],
                      ListCallCli(intent))
        ELSE Resolved(intent, ListCallCli(intent))

-----------------------------------------------------------------------------
(* execute_kubectl                                                         *)
ReadableTypes ==
    <<Chars("pods"), Chars("services"), Chars("deployments"), Chars("nodes"),
      Chars("namespaces")>>

DescribableTypes ==
    <<Chars("pods"), Chars("services"), Chars("deployments")>>

\* the _format_* helpers: a rendering of the objects returned, never empty
Formatted(resource_type, text) ==
    <<"Name: ">> \o resource_type \o <<"\n">> \o text

\* K8sAssistant._execute_kubectl: the API call the intent is dispatched to,
\* or the local error returned instead of a call
ExecPlanApi(intent) ==
    LET action == intent.action
        resource_type == intent.resource_type
        resource_name == intent.resource_name
        namespace == intent.namespace
        Local(text) == [local |-> TRUE, text |-> text, call |-> <<>>]
        Call(op, ns) ==
            [local |-> FALSE, text |-> EMPTY,
             call |-> <<ClusterCall("execute", op, resource_type, ns,
                                    resource_name)>>]
        Scope == IF InList(resource_type, ClusterLists) THEN NULL
                 ELSE namespace
    IN  IF action = Chars("logs")
        THEN IF ~Truthy(resource_name)
             THEN Local(<<"Error:", " Resource name required for logs command">>)
             ELSE IF resource_type # Chars("pods")
             THEN Local(<<"Error:", " Logs can only be retrieved for pods">>)
             ELSE Call("logs", namespace)
        ELSE IF action \in {Chars("list"), Chars("get")}
        THEN IF InList(resource_type, ReadableTypes)
             THEN IF Truthy(resource_name) THEN Call("read", Scope)
                  ELSE Call("list", Scope)
             ELSE Local(<<"Error:", " Resource type '">> \o resource_type
                            \o <<"' not yet supported">>)
        ELSE IF action = Chars("describe")
        THEN IF InList(resource_type, DescribableTypes)
                  /\ Truthy(resource_name)
             THEN Call("read", namespace)
             ELSE Local(<<"Error:", " Describe requires a specific resource name">>)
        ELSE Local(<<"Error:", " Action '">> \o action
                       \o <<"' not supported">>)

\* K8sAssistant._execute_kubectl: the text returned when the call of the
\* plan ends in `out`
ExecTextApi(plan, out) ==
    IF plan.local THEN plan.text
    ELSE IF out.kind = "ok"
    THEN IF plan.call[1].op = "logs" THEN out.text
         ELSE Formatted(plan.call[1].rtype, out.text)
    ELSE IF out.kind = "api_error"
    THEN <<"Error ", plan.call[1].op, ": ">> \o out.text
    ELSE <<"Error executing Kubernetes operation: ", out.kind>>

\* K8sLangGraphAssistant._build_kubectl_command: the command, or the
\* exception raised before the subprocess is started
ExecPlanCli(intent) ==
    LET Raise(text) == [local |-> TRUE, text |-> text, call |-> <<>>]
        ns == IF Truthy(intent.namespace) THEN intent.namespace ELSE NULL
        name == IF Truthy(intent.resource_name) THEN intent.resource_name
                ELSE NULL
        Cmd(op, rtype) ==
            IF ~IsStr(intent.resource_name) /\ Truthy(intent.resource_name)
            THEN Raise(<<"sequence item: expected str instance">>)
            ELSE [local |-> FALSE, text |-> EMPTY,
                  call |-> <<ClusterCall("execute", op, rtype, ns, name)>>]
    IN  IF intent = NoIntent
        THEN Raise(<<"No intent available for kubectl execution">>)
        ELSE IF intent.action = Chars("logs")
        THEN IF Truthy(intent.resource_name) THEN Cmd("logs", NULL)
             ELSE Raise(<<"Resource name required for logs">>)
        ELSE IF intent.action \in {Chars("list"), Chars("get")}
        THEN Cmd("get", intent.resource_type)
        ELSE IF intent.action = Chars("describe")
        THEN Cmd("describe", intent.resource_type)
        ELSE Cmd("kubectl", NULL)

\* K8sLangGraphAssistant._execute_kubectl_node: the fields it writes
ExecStateCli(st, plan, out) ==
    IF plan.local
    THEN [st EXCEPT
            !.error = <<"Command execution failed: ">> \o plan.text,
            !.suggestion = <<"Please check your query syntax and try again.">>]
    ELSE IF out.kind = "ok" THEN [st EXCEPT !.kubectl = out.text]
    ELSE IF out.kind = "api_error"
    THEN [st EXCEPT
            !.error = <<"kubectl error: ">> \o
                (IF out.text # EMPTY THEN out.text
                 ELSE <<"Unknown kubectl error">>),
            !.suggestion =
                <<"Check if the resource exists and you have proper permissions.">>]
    ELSE IF out.kind = "timeout"
    THEN [st EXCEPT
            !.error = <<"kubectl command timed out">>,
            !.suggestion =
                <<"The cluster may be unresponsive. Try again later.">>]
    ELSE [st EXCEPT
            !.error = <<"Command execution failed: ", out.kind>>,
            !.suggestion = <<"Please check your query syntax and try again.">>]

-----------------------------------------------------------------------------
(* enhance_response                                                        *)

\* whether the stage asks the LLM at all
EnhanceCallsLLM(impl, st) ==
    IF impl = K8sAssistant
    THEN ~(~Truthy(st.kubectl) \/ StartsWith(st.kubectl, <<"Error:">>))
    ELSE ~(~Truthy(st.kubectl) \/ Truthy(st.error))

\* K8sAssistant._enhance_response
EnhanceTextApi(st, out) ==
    IF ~EnhanceCallsLLM(K8sAssistant, st)
    THEN <<"Unable to execute the query. ">> \o st.kubectl
    ELSE IF out.kind = "ok" THEN out.text
    ELSE <<"Here's the kubectl output for your query:\n\n">> \o st.kubectl

\* K8sLangGraphAssistant._enhance_response_node
EnhanceTextCli(st, out) ==
    IF ~EnhanceCallsLLM(K8sLangGraphAssistant, st) THEN st.enhanced
    ELSE IF out.kind = "ok" THEN out.text
    ELSE <<"Raw kubectl output provided above.">>

-----------------------------------------------------------------------------
(* The workflow.                                                           *)
VARIABLES
    impl,       \* the assistant class that was constructed
    query,      \* the query of the running process_query, as its words
    pc,         \* the node about to run; "idle" before, "done" after
    st,         \* K8sState: intent, security_check, kubectl, enhanced,
                \* error, suggestion
    route,      \* the label the last router returned
    ran,        \* the nodes that have run for this query, in order
    calls,      \* the collaborator calls and rule-based parser runs of this
                \* query, in order
    terminals,  \* the terminal states entered for this query, in order
    response,   \* the dict process_query returned
    parked,     \* the state of the other process_query in flight on the
                \* same object while this one runs: its query, pc, st,
                \* route, ran, calls, terminals and response
    probe       \* the last direct call of a method of the object: its
                \* name, its arguments and what it returned; `first` keeps
                \* the earliest _fallback_parse call on a scenario query,
                \* `again` tells a later call on that query

vars ==
    <<impl, query, pc, st, route, ran, calls, terminals, response, probe, parked>>

\* no method has been called directly
NoProbe ==
    [fn |-> "none", q |-> <<>>, obj |-> NoIntent, names |-> EMPTY,
     out |-> NoIntent, first |-> [q |-> <<>>, out |-> NoIntent],
     again |-> FALSE]

NoResponse ==
    [query |-> <<>>, parsed_intent |-> NoIntent, raw_response |-> ABSENT,
     enhanced_response |-> ABSENT, error |-> ABSENT, suggestion |-> ABSENT,
     success |-> FALSE]

\* initial_state of process_query
InitialState(i) ==
    IF i = K8sAssistant
    THEN [intent |-> NoIntent, security_check |-> "unset", kubectl |-> EMPTY,
          enhanced |-> EMPTY, error |-> EMPTY, suggestion |-> ABSENT]
    ELSE [intent |-> NoIntent, security_check |-> "unset", kubectl |-> EMPTY,
          enhanced |-> EMPTY, error |-> NULL, suggestion |-> NULL]

Init ==
    /\ impl \in Impls
    /\ query = <<>>
    /\ pc = "idle"
    /\ st = InitialState(impl)
    /\ route = "none"
    /\ ran = <<>>
    /\ calls = <<>>
    /\ terminals = <<>>
    /\ response = NoResponse
    /\ probe = NoProbe
    /\ parked = [query |-> <<>>, pc |-> "idle", st |-> InitialState(impl),
                 route |-> "none", ran |-> <<>>, calls |-> <<>>,
                 terminals |-> <<>>, response |-> NoResponse]

\* process_query is called: initial_state is built and ainvoke starts
Submit ==
    /\ pc = "idle"
    /\ \E q \in Queries : query' = q
    /\ pc' = "security_check"
    /\ UNCHANGED <<impl, st, route, ran, calls, terminals, response, probe, parked>>

\* K8sLangGraphAssistant._security_check_router, _parse_intent_router
ErrorRouter(state) == IF Truthy(state.error) THEN "error" ELSE "continue"

\* K8sAssistant._route_after_security
route_after_security(state) ==
    IF state.security_check = "blocked" THEN "error" ELSE "continue"

\* K8sAssistant._route_after_parsing
route_after_parsing(state) ==
    IF Truthy(state.error) THEN "error" ELSE "continue"

\* an edge map that sends every label onward
EdgeOnward(i, label, onward) == onward

\* an edge map whose "error" label leads to format_output in both classes
EdgeToFormatOutput(i, label, onward) ==
    IF label = "continue" THEN onward ELSE "format_output"

\* the node an edge label leads to (add_conditional_edges)
EdgeTarget(i, label, onward) ==
    IF label = "continue" THEN onward
    ELSE IF i = K8sAssistant THEN "format_output" ELSE "error_handler"

SecurityMessage(v) ==
    IF v.kind = "banned_action" THEN SecurityWarning(v.token)
    ELSE AccessDenied(v.token)

\* _security_check_node: the state it returns for a verdict
SecurityNode(i, state, v) ==
    IF ~v.blocked THEN [state EXCEPT !.security_check = "passed"]
    ELSE IF i = K8sAssistant
    THEN [state EXCEPT !.error = SecurityMessage(v),
                       !.security_check = "blocked"]
    ELSE [state EXCEPT
            !.error = SecurityMessage(v),
            !.suggestion = IF v.kind = "banned_action"
                           THEN ReadOnlySuggestion
                           ELSE OtherResourcesSuggestion]

SecurityCheckState(i, state, q) == SecurityNode(i, state, VerdictTable[i][q])

SecurityCheck ==
    /\ pc = "security_check"
    /\ st' = SecurityCheckState(impl, st, query)
    /\ route' = IF impl = K8sAssistant THEN route_after_security(st')
                ELSE ErrorRouter(st')
    /\ pc' = EdgeTarget(impl, route', "parse_intent")
    /\ ran' = Append(ran, "security_check")
    /\ UNCHANGED <<impl, query, calls, terminals, response, probe, parked>>

\* K8sAssistant._parse_intent_node, given the dict _parse_intent returned
ParseNodeApi(state, intent) ==
    IF Truthy(intent.error) THEN [state EXCEPT !.error = intent.error]
    ELSE [state EXCEPT !.intent = intent]

\* a parse node that gives up, with a suggestion, when the completion raises
ParseIntentStateNoFallback(i, state, q, llm) ==
    IF i = K8sAssistant THEN ParseNodeApi(state, ParseIntentApi(q, llm))
    ELSE IF llm.kind = "raise"
    THEN [state EXCEPT
            !.error = <<"Failed to understand the query. Please try rephrasing.">>,
            !.suggestion = <<"Use clear commands like 'list pods'.">>]
    ELSE [state EXCEPT !.intent = ParseIntentCli(q, llm)]

\* _parse_intent_node: the state it returns for a completion
ParseIntentState(i, state, q, llm) ==
    IF i = K8sAssistant THEN ParseNodeApi(state, ParseIntentApi(q, llm))
    ELSE [state EXCEPT !.intent = ParseIntentCli(q, llm)]

\* whether the parse path of a completion reaches self._fallback_parse
RunsFallback(i, llm, v) ==
    IF llm.kind # "json" THEN TRUE
    ELSE IF i = K8sAssistant THEN v.raised /\ ~IsSecurityMessage(v.msg)
    ELSE v.raised \/ v.intent.error # ABSENT \/ v.intent.extra_keys

\* what parse_intent adds to the log: its completion call, with the object
\* the completion carried, and the run of the rule-based parser if any
ParseCalls(i, q, llm) ==
    <<[LLMCall("parse") EXCEPT !.result = llm.kind, !.said = llm.obj]>>
    \o (IF RunsFallback(i, llm, ValidateIntent(i, llm.obj))
        THEN <<FallbackRun(i, q)>> ELSE <<>>)

ParseIntent ==
    /\ pc = "parse_intent"
    /\ \E llm \in LLMParseOutcomes :
        /\ st' = ParseIntentState(impl, st, query, llm)
        /\ calls' = calls \o ParseCalls(impl, query, llm)
    /\ route' = IF impl = K8sAssistant THEN route_after_parsing(st')
                ELSE ErrorRouter(st')
    /\ pc' = EdgeTarget(impl, route', "resolve_resources")
    /\ ran' = Append(ran, "parse_intent")
    /\ UNCHANGED <<impl, query, terminals, response, probe, parked>>

Resolve(i, intent, out) ==
    IF i = K8sAssistant THEN ResolveApi(intent, out)
    ELSE ResolveCli(intent, out)

\* _resolve_resources_node: the state it returns, given what the resolver did
ResolveState(i, state, r) ==
    IF r.raised
    THEN [state EXCEPT !.error =
            <<"Failed to resolve resources: ",
              "'int' object has no attribute 'lower'">>]
    ELSE [state EXCEPT !.intent = r.intent]

ResolveStep(r, out) ==
    /\ st' = ResolveState(impl, st, r)
    /\ calls' = calls \o AnsweredList(r.calls, out)

ResolveResources ==
    /\ pc = "resolve_resources"
    /\ \E out \in ListOutcomes : ResolveStep(Resolve(impl, st.intent, out), out)
    /\ pc' = "execute_kubectl"
    /\ ran' = Append(ran, "resolve_resources")
    /\ UNCHANGED <<impl, query, route, terminals, response, probe, parked>>

ExecPlan(i, intent) ==
    IF i = K8sAssistant THEN ExecPlanApi(intent) ELSE ExecPlanCli(intent)

\* an Execute node that writes nothing when its backend call fails
ExecStateDropsFailure(i, state, plan, out) ==
    IF plan.local \/ out.kind = "ok"
    THEN IF i = K8sAssistant
         THEN [state EXCEPT !.kubectl = ExecTextApi(plan, out)]
         ELSE ExecStateCli(state, plan, out)
    ELSE state

\* _execute_kubectl_node: the state it returns, given the plan
ExecState(i, state, plan, out) ==
    IF i = K8sAssistant
    THEN [state EXCEPT !.kubectl = ExecTextApi(plan, out)]
    ELSE ExecStateCli(state, plan, out)

ExecStep(plan, out) ==
    /\ st' = ExecState(impl, st, plan, out)
    /\ calls' = calls \o Answered(plan.call, out)

\* an Execute stage with an edge back to itself: it runs once more when its
\* first backend call failed
ExecuteKubectlRetrying ==
    /\ pc = "execute_kubectl"
    /\ \E out \in ExecOutcomes :
        /\ ExecStep(ExecPlan(impl, st.intent), out)
        /\ pc' = IF out.kind # "ok" /\ ~InList("execute_kubectl", ran)
                 THEN "execute_kubectl" ELSE "enhance_response"
    /\ ran' = Append(ran, "execute_kubectl")
    /\ UNCHANGED <<impl, query, route, terminals, response, probe, parked>>

ExecuteKubectl ==
    /\ pc = "execute_kubectl"
    /\ \E out \in ExecOutcomes : ExecStep(ExecPlan(impl, st.intent), out)
    /\ pc' = "enhance_response"
    /\ ran' = Append(ran, "execute_kubectl")
    /\ UNCHANGED <<impl, query, route, terminals, response, probe, parked>>

\* _enhance_response_node: the state it returns
EnhanceState(i, state, out) ==
    [state EXCEPT !.enhanced =
        IF i = K8sAssistant THEN EnhanceTextApi(state, out)
        ELSE EnhanceTextCli(state, out)]

EnhanceResponse ==
    /\ pc = "enhance_response"
    /\ \E out \in LLMEnhanceOutcomes :
        /\ st' = EnhanceState(impl, st, out)
        /\ calls' = IF EnhanceCallsLLM(impl, st)
                    THEN calls \o Answered(<<LLMCall("enhance")>>, out)
                    ELSE calls
    /\ pc' = IF impl = K8sAssistant THEN "format_output" ELSE "respond"
    /\ ran' = Append(ran, "enhance_response")
    /\ UNCHANGED <<impl, query, route, terminals, response, probe, parked>>

\* K8sLangGraphAssistant._error_handler_node
ErrorHandlerState(state) ==
    IF ~Truthy(state.error)
    THEN [state EXCEPT !.error = <<"An unknown error occurred">>,
                       !.suggestion = <<"Please try rephrasing your query">>]
    ELSE state

ErrorHandler ==
    /\ pc = "error_handler"
    /\ st' = ErrorHandlerState(st)
    /\ terminals' = Append(terminals, "ErrorFormat")
    /\ pc' = "respond"
    /\ ran' = Append(ran, "error_handler")
    /\ UNCHANGED <<impl, query, route, calls, response, probe, parked>>

\* K8sAssistant._format_output_node: entered by an "error" edge it is the
\* error terminal, entered from enhance_response the normal one
FormatOutput ==
    /\ pc = "format_output"
    /\ terminals' = Append(terminals,
            IF route = "error" THEN "ErrorFormat" ELSE "Format")
    /\ pc' = "respond"
    /\ ran' = Append(ran, "format_output")
    /\ UNCHANGED <<impl, query, st, route, calls, response, probe, parked>>

\* K8sLangGraphAssistant._format_response
_format_response(q, state) ==
    IF Truthy(state.error)
    THEN [NoResponse EXCEPT !.query = q, !.error = state.error,
                            !.suggestion = state.suggestion,
                            !.success = FALSE]
    ELSE [NoResponse EXCEPT !.query = q, !.parsed_intent = state.intent,
                            !.raw_response = state.kubectl,
                            !.enhanced_response = state.enhanced,
                            !.success = TRUE]

\* a result dict whose success tells whether there is any output
ResultDictByOutput(q, state) ==
    [NoResponse EXCEPT !.query = q, !.parsed_intent = state.intent,
                       !.raw_response = state.kubectl,
                       !.enhanced_response = state.enhanced,
                       !.error = state.error,
                       !.success = Truthy(state.kubectl)]

\* the dict K8sAssistant.process_query builds from the final state
ResultDict(q, state) ==
    [NoResponse EXCEPT !.query = q, !.parsed_intent = state.intent,
                       !.raw_response = state.kubectl,
                       !.enhanced_response = state.enhanced,
                       !.error = state.error,
                       !.success = ~Truthy(state.error)]

\* a process_query that lets the error of a run escape instead of returning
\* a dict for it: the caller gets no response
RespondUnlessError ==
    /\ pc = "respond"
    /\ response' = IF Truthy(st.error) THEN NoResponse
                   ELSE IF impl = K8sAssistant THEN ResultDict(query, st)
                   ELSE _format_response(query, st)
    /\ terminals' = IF impl = K8sLangGraphAssistant
                        /\ ~InList("error_handler", ran)
                    THEN Append(terminals, "Format")
                    ELSE terminals
    /\ pc' = "done"
    /\ UNCHANGED <<impl, query, st, route, ran, calls, probe, parked>>

\* ainvoke has returned: process_query builds its response
Respond ==
    /\ pc = "respond"
    /\ response' = IF impl = K8sAssistant THEN ResultDict(query, st)
                   ELSE _format_response(query, st)
    /\ terminals' = IF impl = K8sLangGraphAssistant
                        /\ ~InList("error_handler", ran)
                    THEN Append(terminals, "Format")
                    ELSE terminals
    /\ pc' = "done"
    /\ UNCHANGED <<impl, query, st, route, ran, calls, probe, parked>>

\* the caller has the response; the assistant object, which keeps nothing of
\* a run, is ready for the next call of process_query
Return ==
    /\ pc = "done"
    /\ pc' = "idle"
    /\ query' = <<>>
    /\ st' = InitialState(impl)
    /\ route' = "none"
    /\ ran' = <<>>
    /\ calls' = <<>>
    /\ terminals' = <<>>
    /\ response' = NoResponse
    /\ UNCHANGED <<impl, probe, parked>>

Next ==
    \/ Submit
    \/ SecurityCheck
    \/ ParseIntent
    \/ ResolveResources
    \/ ExecuteKubectl
    \/ EnhanceResponse
    \/ ErrorHandler
    \/ FormatOutput
    \/ Respond
    \/ Return

Spec == Init /\ [][Next]_vars

\* the asyncio loop runs a started workflow on: every await returns or
\* raises (the subprocess calls carry timeouts), so a step that can be taken
\* is taken
FairSpec == Spec /\ WF_vars(Next)

\* a change of coroutine after which the nodes go on with the state of the
\* call that was running before, as if it were kept on the object
SwitchKeepingState ==
    /\ pc # "idle" \/ parked.pc # "idle"
    /\ parked' = [query |-> query, pc |-> pc, st |-> st, route |-> route,
                  ran |-> ran, calls |-> calls, terminals |-> terminals,
                  response |-> response]
    /\ query' = parked.query
    /\ pc' = parked.pc
    /\ st' = st
    /\ route' = parked.route
    /\ ran' = parked.ran
    /\ calls' = parked.calls
    /\ terminals' = parked.terminals
    /\ response' = parked.response
    /\ UNCHANGED <<impl, probe>>

\* Two process_query calls in flight on the one object the router holds.
\* Each call has its own initial_state and the graph keeps no state between
\* invocations, so a call's state is its own frame; the event loop leaves
\* one coroutine for the other at an await, which the model places between
\* nodes.  The variables of the workflow are the frame of the call that is
\* running, `parked` the frame of the one that waits.
Switch ==
    /\ pc # "idle" \/ parked.pc # "idle"
    /\ parked' = [query |-> query, pc |-> pc, st |-> st, route |-> route,
                  ran |-> ran, calls |-> calls, terminals |-> terminals,
                  response |-> response]
    /\ query' = parked.query
    /\ pc' = parked.pc
    /\ st' = parked.st
    /\ route' = parked.route
    /\ ran' = parked.ran
    /\ calls' = parked.calls
    /\ terminals' = parked.terminals
    /\ response' = parked.response
    /\ UNCHANGED <<impl, probe>>

\* two requests arrive, each with one of two queries: one the gate refuses,
\* one that goes through every stage
ConcurrentNext ==
    \/ Submit /\ query' \in {<<"delete", "pod", "backend">>,
                             <<"list", "all", "pods">>}
    \/ SecurityCheck
    \/ ParseIntent
    \/ ResolveResources
    \/ ExecuteKubectl
    \/ EnhanceResponse
    \/ ErrorHandler
    \/ FormatOutput
    \/ Respond
    \/ Switch

ConcurrentSpec == Init /\ [][ConcurrentNext]_vars

-----------------------------------------------------------------------------
(* Direct calls of the methods of an assistant object, outside a run of    *)
(* the workflow: the method is applied to an argument drawn from a small   *)
(* set and `probe` keeps the argument and the value returned.              *)
workflow == <<impl, query, pc, st, route, ran, calls, terminals, response>>

\* resource-type values a completion object may carry
TypeNames ==
    NamesOf(supported_resources) \cup NamesOf(restricted_patterns)
    \cup {Chars("pod"), Chars("svc"), Chars("deploy"), Chars("deployment"),
          Chars("cm"), Chars("pv"), Chars("persistentvolume"), Chars("pvc"),
          Chars("persistentvolumeclaim"), Chars("service"),
          Chars("database"), EMPTY, NULL, NUM, ABSENT}

ValidateInputs ==
    { [NoIntent EXCEPT !.resource_type = t, !.action = a] :
        t \in TypeNames, a \in {Chars("list"), Chars("delete"), ABSENT} }

\* self._validate_intent(obj)
CallValidate ==
    /\ pc = "idle"
    /\ probe.fn = "none"
    /\ \E obj \in ValidateInputs :
           probe' = [NoProbe EXCEPT !.fn = "_validate_intent", !.obj = obj,
                                    !.out = ValidateIntent(impl, obj)]
    /\ UNCHANGED <<workflow, parked>>

\* the calls of _fallback_parse that are followed: a first call on any
\* query; after a call on the query kept in `first`, a call on any query;
\* after a call on another query, the kept query again
FallbackMayFollow(q) ==
    \/ probe.fn = "none"
    \/ /\ probe.fn = "_fallback_parse"
       /\ probe.first.q # <<>>
       /\ probe.q = probe.first.q \/ q = probe.first.q

\* what `first` holds after _fallback_parse(q) has returned `out`
FirstKept(q, out) ==
    IF probe.first.q = <<>> /\ q \in ScenarioQueries
    THEN [q |-> q, out |-> out]
    ELSE probe.first

\* a rule-based parser that keeps, in the object, the namespace it found
\* last and falls back on it for a query that names none
CallFallbackRemembering ==
    /\ pc = "idle"
    /\ \E q \in {x \in Queries : FallbackMayFollow(x)} :
        \E out \in {_fallback_parse(impl, q)} :
        \E kept \in {IF out.namespace = NULL /\ probe.fn = "_fallback_parse"
                      THEN [out EXCEPT !.namespace = probe.out.namespace]
                      ELSE out} :
           probe' = [NoProbe EXCEPT !.fn = "_fallback_parse", !.q = q,
                                    !.out = kept,
                                    !.first = FirstKept(q, kept),
                                    !.again = (q = probe.first.q)]
    /\ UNCHANGED <<workflow, parked>>

\* self._fallback_parse(query), on an object that has parsed other queries
CallFallback ==
    /\ pc = "idle"
    /\ \E q \in {x \in Queries : FallbackMayFollow(x)} :
        \E out \in {_fallback_parse(impl, q)} :
           probe' = [NoProbe EXCEPT !.fn = "_fallback_parse", !.q = q,
                                    !.out = out,
                                    !.first = FirstKept(q, out),
                                    !.again = (q = probe.first.q)]
    /\ UNCHANGED <<workflow, parked>>

\* the longest live name list handed to the resolver
MaxNames == 2

\* names of live pods, and the names a caller may ask for
NamePool ==
    {Chars("backend"), Chars("Backend"), Chars("backend-api"),
     Chars("api-server"), Chars("web")}

RequestedNames ==
    {Chars("backend"), Chars("Backend"), Chars("api"), Chars("server"),
     Chars("be")}

\* the lists of n different names of the pool, in every order
RECURSIVE NameListsOf(_)
NameListsOf(n) ==
    IF n = 0 THEN {<<>>}
    ELSE {Append(l, x) : l \in NameListsOf(n - 1), x \in NamePool}

NameLists ==
    {l \in UNION {NameListsOf(n) : n \in 1..MaxNames} :
        \A i, j \in 1..Len(l) : l[i] = l[j] => i = j}

\* self._resolve_resource_names(intent) with the live list `names`
CallResolve ==
    /\ pc = "idle"
    /\ probe.fn = "none"
    /\ \E name \in RequestedNames, l \in NameLists :
        \E intent \in {MkIntent(Chars("pods"), Chars("get"), name, NULL)} :
           probe' = [NoProbe EXCEPT
                       !.fn = "_resolve_resource_names", !.obj = intent,
                       !.names = l,
                       !.out = Resolve(impl, intent,
                                       [kind |-> "names", names |-> l])]
    /\ UNCHANGED <<workflow, parked>>

\* resolved intents handed to Execute
ExecInputs ==
    { MkIntent(rt, act, name, ns) :
        rt \in NamesOf(supported_resources),
        act \in {Chars("logs"), Chars("list"), Chars("get"), Chars("describe")},
        name \in {NULL, EMPTY, Chars("backend")},
        ns \in {NULL, Chars("kube-system")} }

\* self._execute_kubectl(intent), up to the backend call it issues or the
\* local error it answers with instead
CallExecute ==
    /\ pc = "idle"
    /\ probe.fn = "none"
    /\ \E intent \in ExecInputs :
           probe' = [NoProbe EXCEPT !.fn = "_execute_kubectl",
                                    !.obj = intent,
                                    !.out = ExecPlan(impl, intent)]
    /\ UNCHANGED <<workflow, parked>>

\* f"{n}" of a non-negative int: its decimal digits, most significant first
RECURSIVE FormatInt(_)
FormatInt(n) ==
    LET digit == <<"0", "1", "2", "3", "4", "5", "6", "7", "8", "9">>[(n % 10) + 1]
    IN  IF n < 10 THEN <<digit>> ELSE FormatInt(n \div 10) \o <<digit>>

\* an age formatter whose thresholds are reached rather than exceeded
CalculateAgeAtThreshold(created, now) ==
    IF ~created.given THEN <<"Unknown">>
    ELSE LET age     == now - created.at
             days    == age \div 86400
             seconds == age % 86400
         IN  IF days > 0 THEN FormatInt(days) \o <<"d">>
             ELSE IF seconds >= 3600 THEN FormatInt(seconds \div 3600) \o <<"h">>
             ELSE IF seconds >= 60 THEN FormatInt(seconds \div 60) \o <<"m">>
             ELSE FormatInt(seconds) \o <<"s">>

\* _calculate_age with datetime.now() passed in; a timestamp is a record
\* whose field at is whole seconds since the epoch (a naive timestamp is read
\* as UTC), and None is the record that is not given.
\* A timedelta is normalised to days = floor(age / 86400) and
\* 0 <= seconds < 86400, also when the age is negative.
_calculate_age(created, now) ==
    IF ~created.given THEN <<"Unknown">>
    ELSE LET age     == now - created.at
             days    == age \div 86400
             seconds == age % 86400
         IN  IF days > 0 THEN FormatInt(days) \o <<"d">>
             ELSE IF seconds > 3600 THEN FormatInt(seconds \div 3600) \o <<"h">>
             ELSE IF seconds > 60 THEN FormatInt(seconds \div 60) \o <<"m">>
             ELSE FormatInt(seconds) \o <<"s">>

\* the creation timestamps tried, None among them: ages around each
\* threshold and of several days before the clock reading 259200, and a
\* timestamp ahead of it
Timestamps ==
    LET Ages == {0, 1, 30, 59, 60, 61, 90, 600, 3599, 3600, 3601, 5400, 7199,
                 7200, 36000, 86399, 86400, 86401, 90000, 91800, 172799,
                 172800, 178200, 259200}
    IN  {[given |-> FALSE, at |-> 0]} \cup
        {[given |-> TRUE, at |-> t] : t \in {259200 - e : e \in Ages} \cup {259210}}

\* self._calculate_age(creation_timestamp) at one reading of the clock
CallAge ==
    /\ pc = "idle"
    /\ impl = K8sAssistant
    /\ probe.fn = "none"
    /\ \E created \in Timestamps, now \in {259200, 259230} :
           probe' = [NoProbe EXCEPT !.fn = "_calculate_age",
                                    !.obj = [created |-> created, now |-> now],
                                    !.out = _calculate_age(created, now)]
    /\ UNCHANGED <<workflow, parked>>

\* the caller is done with the value returned
Discard ==
    /\ pc = "idle"
    /\ probe.fn # "none"
    /\ probe' = NoProbe
    /\ UNCHANGED <<workflow, parked>>

MethodNext ==
    \/ CallValidate
    \/ CallFallback
    \/ CallResolve
    \/ CallExecute
    \/ CallAge
    \/ Discard

MethodSpec == Init /\ [][MethodNext]_vars

-----------------------------------------------------------------------------
(* The vocabulary of the properties.                                       *)

\* process_query has returned
Done == pc = "done"

\* the lower-cased text of a query given as its words
TextOf(q) == Lower(JoinWords(q))

BannedTokens ==
    {Chars("delete"), Chars("edit"), Chars("patch"), Chars("apply"),
     Chars("create")}

RestrictedTokens ==
    {Chars("secret"), Chars("secrets"), Chars("role"), Chars("roles"),
     Chars("rolebinding"), Chars("rolebindings"), Chars("clusterrole"),
     Chars("clusterroles"), Chars("clusterrolebinding"),
     Chars("clusterrolebindings")}

\* the tokens of T that the text of the query contains
TokensIn(q, T) == {t \in T : Contains(TextOf(q), t)}

\* the calls of a stage that are in the log
CallsOf(stage) == {i \in 1..Len(calls) : calls[i].stage = stage}

\* the Security stage has blocked the running query
SecurityBlocked ==
    /\ InList("security_check", ran)
    /\ IF impl = K8sAssistant THEN st.security_check = "blocked"
       ELSE /\ Truthy(st.error)
            /\ st.error[1] \in {"Security Warning: '", "Access Denied: '"}

\* the backend call of Execute timed out or otherwise failed
BackendFailed ==
    \E i \in CallsOf("execute") :
        calls[i].result \in {"api_error", "timeout", "unavailable"}

\* Execute ran and ended in an error: a local precondition error or a
\* failure of its backend call
ExecuteFailed ==
    /\ InList("execute_kubectl", ran)
    /\ \A i \in CallsOf("execute") : calls[i].result # "ok"

\* the Resolve stage raised
ResolveRaised ==
    /\ Truthy(st.error)
    /\ st.error[1] = "Failed to resolve resources: "

\* the completion call of Enhance was made and raised
EnhanceLLMFailed == \E i \in CallsOf("enhance") : calls[i].result = "raise"

-----------------------------------------------------------------------------
(* C1: a query whose lower-cased text contains one of delete, edit, patch, *)
(* apply, create ends in the error terminal state, with success false and  *)
(* a security-warning reason that names a verb the query contains.         *)
C1_BannedQueryIsRefused ==
    (Done /\ TokensIn(query, BannedTokens) # {}) =>
        /\ terminals = <<"ErrorFormat">>
        /\ response.success = FALSE
        /\ \E t \in TokensIn(query, BannedTokens) :
               response.error = <<"Security Warning: '">> \o t
                   \o <<"' operations are not allowed for safety reasons.">>

\* C1: "kube-system Delete", mixed case and other content, has been refused
C1_Witness ==
    /\ Done
    /\ query = <<"kube-system", "Delete">>
    /\ response.success = FALSE
    /\ terminals = <<"ErrorFormat">>

(* C2: a query whose lower-cased text contains a restricted-resource token *)
(* (and no banned verb, which the gate reports first) ends in the error    *)
(* terminal state, with success false and an access-denied reason that     *)
(* names a pattern the query contains.                                     *)
C2_RestrictedQueryIsRefused ==
    (/\ Done
     /\ TokensIn(query, RestrictedTokens) # {}
     /\ TokensIn(query, BannedTokens) = {}) =>
        /\ terminals = <<"ErrorFormat">>
        /\ response.success = FALSE
        /\ \E t \in TokensIn(query, RestrictedTokens) :
               response.error = <<"Access Denied: '">> \o t
                   \o <<"' resources are restricted for security reasons.">>

(* C3: once the Security stage has blocked a query, no later stage runs    *)
(* for it and no LLM or cluster call is issued, up to and including the    *)
(* returned response.                                                      *)
C3_BlockedQuerySkipsEverything ==
    SecurityBlocked =>
        /\ calls = <<>>
        /\ \A i \in 1..Len(ran) :
               ran[i] \notin {"parse_intent", "resolve_resources",
                              "execute_kubectl", "enhance_response"}
        /\ pc \notin {"parse_intent", "resolve_resources",
                      "execute_kubectl", "enhance_response"}

\* C3: a blocked query has been answered, and nothing was called for it
C3_Witness ==
    /\ Done
    /\ SecurityBlocked
    /\ query = <<"rolebindings", "list">>
    /\ calls = <<>>

\* at most one terminal state has been entered, exactly one when the run is
\* over; Format comes after Enhance, ErrorFormat straight from Security or
\* Parse
OneTerminal ==
    /\ Len(terminals) <= 1
    /\ Done => Len(terminals) = 1
    /\ terminals = <<"Format">> => InList("enhance_response", ran)
    /\ terminals = <<"ErrorFormat">> =>
           /\ ~InList("enhance_response", ran)
           /\ \E i \in 1..Len(ran) :
                  /\ ran[i] \in {"security_check", "parse_intent"}
                  /\ \A j \in (i + 1)..Len(ran) :
                         ran[j] \in {"error_handler", "format_output"}

(* C4: every run of process_query reaches exactly one terminal state,      *)
(* Format after Enhance or ErrorFormat from Security or Parse: never both, *)
(* and every started run comes to its end.                                 *)
C4_ExactlyOneTerminal ==
    /\ []OneTerminal
    /\ (pc = "security_check") ~> Done

\* C4: a run that Parse diverted has ended in ErrorFormat alone
C4_Witness ==
    /\ Done
    /\ terminals = <<"ErrorFormat">>
    /\ InList("parse_intent", ran)

(* C5: when the backend call of Execute times out or fails, the run still  *)
(* goes through Enhance to Format and the response has success true, with  *)
(* the error text in raw_response.                                         *)
C5_BackendFailureIsSuccess ==
    (Done /\ BackendFailed /\ ~ResolveRaised) =>
        /\ terminals = <<"Format">>
        /\ InList("enhance_response", ran)
        /\ response.success = TRUE
        /\ Truthy(response.raw_response)

(* C6: in every response, success is false whenever the error field is     *)
(* neither null nor empty.                                                 *)
C6_ErrorMeansNoSuccess ==
    Truthy(response.error) => response.success = FALSE

\* C6: a response that carries an error although Execute was answered
C6_Witness ==
    /\ Done
    /\ Truthy(response.error)
    /\ response.success = FALSE
    /\ \E i \in CallsOf("execute") : calls[i].result = "ok"

C8_ResolveNeverFails ==
    (pc = "execute_kubectl") => ~Truthy(st.error)

(* C9: when the completion call of Enhance fails, enhanced_response is a   *)
(* fallback text that embeds the raw output verbatim, the error field is   *)
(* left as it was and the run ends at Format, with success true unless an  *)
(* earlier stage had set an error.                                         *)
C9_EnhanceFallbackEmbedsOutput ==
    (Done /\ EnhanceLLMFailed) =>
        /\ Contains(response.enhanced_response, response.raw_response)
        /\ terminals = <<"Format">>
        /\ response.success = ~ResolveRaised

(* C10: Enhance issues its completion call only when the text Execute      *)
(* produced is non-empty and Execute ended in no error, local or reported  *)
(* by the backend.                                                         *)
C10_EnhanceAsksOnlyAfterCleanOutput ==
    (CallsOf("enhance") # {}) =>
        /\ Truthy(st.kubectl)
        /\ ~ExecuteFailed

\* the object the completion of Parse carried names a restricted resource
\* type or a banned action
ParsedForbidden ==
    \E i \in CallsOf("parse") :
        /\ calls[i].result = "json"
        /\ \/ calls[i].said.resource_type \in RestrictedTokens
           \/ calls[i].said.action \in BannedTokens

(* C11: when the completion of Parse carries an intent whose resource_type *)
(* is a restricted-resource token or whose action is a banned verb, for a  *)
(* query the gate let through, the run ends in the error terminal state    *)
(* with an access-denied or security-warning reason and success false, and *)
(* neither Resolve nor Execute runs.                                       *)
C11_ParsedForbiddenIntentIsFatal ==
    (Done /\ ParsedForbidden) =>
        /\ terminals = <<"ErrorFormat">>
        /\ response.success = FALSE
        /\ Truthy(response.error)
        /\ response.error[1] \in
               {"Access Denied: '", "Security Warning: '",
                "Access denied to ", "Action "}
        /\ ~InList("resolve_resources", ran)
        /\ ~InList("execute_kubectl", ran)

\* the rule-based parser's intent for a query, computed from the query
FallbackOf(i, q) ==
    IF i = K8sAssistant THEN FallbackParseApi(q) ELSE FallbackParseCli(q)

\* a completion object that Parse can use as it is: its resource type is
\* not restricted, its action not banned, and it has the intent's keys only
Usable(obj) ==
    /\ obj.resource_type \notin RestrictedTokens
    /\ obj.action \notin BannedTokens
    /\ obj.error = ABSENT
    /\ ~obj.extra_keys

\* Parse has just handed its intent on to Resolve
LeftParse == pc = "resolve_resources" /\ ran[Len(ran)] = "parse_intent"

(* C12: Parse makes one completion call.  When that call raises or its     *)
(* text holds no parsable JSON object, the rule-based parser runs exactly  *)
(* once, after the call, on the original query, and the intent that leaves *)
(* Parse is what it returned; when the completion carries a usable object  *)
(* the rule-based parser does not run and the intent is the validated      *)
(* object.                                                                 *)
C12_FallbackIsOneShot ==
    InList("parse_intent", ran) =>
        /\ Cardinality(CallsOf("parse")) = 1
        /\ Cardinality(CallsOf("fallback")) <= 1
        /\ \A i \in CallsOf("parse") :
            /\ calls[i].result \in {"raise", "no_json", "bad_json"} =>
                /\ CallsOf("fallback") = {i + 1}
                /\ LeftParse =>
                       /\ calls[i + 1].said = FallbackOf(impl, query)
                       /\ st.intent = FallbackOf(impl, query)
            /\ (calls[i].result = "json" /\ Usable(calls[i].said)) =>
                /\ CallsOf("fallback") = {}
                /\ LeftParse =>
                       st.intent = ValidateIntent(impl, calls[i].said).intent

\* C12: the completion raised for "show logs for backend pod" and the
\* rule-based parser, run once, has supplied the logs intent
C12_Witness ==
    /\ LeftParse
    /\ query = <<"show", "logs", "for", "backend", "pod">>
    /\ \E i \in CallsOf("parse") : calls[i].result = "raise"
    /\ Cardinality(CallsOf("fallback")) = 1
    /\ st.intent.action = Chars("logs")

\* C12: the completion carried a usable object and it was taken as it is
C12_WitnessUsable ==
    /\ LeftParse
    /\ \E i \in CallsOf("parse") :
           calls[i].result = "json" /\ Usable(calls[i].said)
    /\ CallsOf("fallback") = {}
    /\ st.intent.resource_type = Chars("services")

SupportedTypes ==
    {Chars("pods"), Chars("services"), Chars("deployments"),
     Chars("configmaps"), Chars("ingress"), Chars("nodes"),
     Chars("namespaces"), Chars("persistentvolumes"),
     Chars("persistentvolumeclaims")}

\* the intent is on its way into Resolve or Execute
TowardResolveOrExecute == pc \in {"resolve_resources", "execute_kubectl"}

(* C13: every intent that leaves Parse toward Resolve and Execute has a    *)
(* resource_type of the supported set and an action that is not one of the *)
(* banned verbs.                                                           *)
C13_IntentLeavingParseIsSafe ==
    TowardResolveOrExecute =>
        /\ st.intent.resource_type \in SupportedTypes
        /\ st.intent.action \notin BannedTokens

\* C13: a completion that said "svc" has left Parse as "services"
C13_Witness ==
    /\ pc = "resolve_resources"
    /\ \E i \in CallsOf("parse") :
           calls[i].said.resource_type = Chars("svc")
    /\ st.intent.resource_type = Chars("services")
    /\ st.intent.action = Chars("describe")

\* the canonical name of a resource-type value: a supported name is its own,
\* an alias has its resource's, every other value has pods
Canonical(t) ==
    IF t \in SupportedTypes THEN t
    ELSE IF t = Chars("pod") THEN Chars("pods")
    ELSE IF t = Chars("svc") THEN Chars("services")
    ELSE IF t \in {Chars("deploy"), Chars("deployment")}
    THEN Chars("deployments")
    ELSE IF t = Chars("cm") THEN Chars("configmaps")
    ELSE IF t \in {Chars("pv"), Chars("persistentvolume")}
    THEN Chars("persistentvolumes")
    ELSE IF t \in {Chars("pvc"), Chars("persistentvolumeclaim")}
    THEN Chars("persistentvolumeclaims")
    ELSE Chars("pods")

\* _validate_intent has been called and has returned an intent
ValidateReturned == probe.fn = "_validate_intent" /\ ~probe.out.raised

(* C14: the resource_type of the intent _validate_intent returns is the    *)
(* canonical name of the value it was given: a supported name maps to      *)
(* itself, pod to pods, svc to services, deploy and deployment to          *)
(* deployments, cm to configmaps, pv and persistentvolume to               *)
(* persistentvolumes, pvc and persistentvolumeclaim to                     *)
(* persistentvolumeclaims, and every other value that is not refused to    *)
(* pods.                                                                   *)
C14_TypeNormalisation ==
    ValidateReturned =>
        probe.out.intent.resource_type =
            Canonical(WithDefaults(probe.obj).resource_type)

ResolveReturned == probe.fn = "_resolve_resource_names"
Requested == Lower(probe.obj.resource_name)
Picked == probe.out.intent.resource_name
ExactIn == {x \in NamesOf(probe.names) : Lower(x) = Requested}
PrefixIn == {x \in NamesOf(probe.names) : StartsWith(Lower(x), Requested)}
SubstringIn == {x \in NamesOf(probe.names) : Contains(Lower(x), Requested)}

(* C16: for any live name list, a name equal to the requested one up to    *)
(* case is selected whatever else the list holds; failing that, the        *)
(* selection is among the names that start with the requested name if      *)
(* there are any; failing that, among the names that contain it; and a     *)
(* name that does not contain it is selected only when none does.          *)
C16_ResolutionPrecedence ==
    ResolveReturned =>
        /\ ExactIn # {} => Picked \in ExactIn
        /\ (ExactIn = {} /\ PrefixIn # {}) => Picked \in PrefixIn
        /\ (PrefixIn = {} /\ SubstringIn # {}) => Picked \in SubstringIn
        /\ (Picked \in NamesOf(probe.names) \ SubstringIn) => SubstringIn = {}

\* the cluster calls of Resolve and Execute, in the log, for a resource
\* that lives in a namespace
NamespacedCalls ==
    {i \in CallsOf("resolve") \cup CallsOf("execute") :
        /\ calls[i].svc = "cluster"
        /\ calls[i].rtype \in
               {Chars("pods"), Chars("services"), Chars("deployments"),
                Chars("configmaps"), Chars("ingress"),
                Chars("persistentvolumeclaims")}}

\* the call is addressed to the namespace "default": the API client is
\* handed that name; kubectl, given no -n flag, uses its default namespace
TargetsDefault(call) ==
    IF impl = K8sAssistant THEN call.ns = Chars("default")
    ELSE call.ns = NULL

(* C17: when the intent that leaves Parse has a null namespace, every      *)
(* cluster call that Resolve and Execute make for a namespaced resource    *)
(* is addressed to the namespace "default", and the parsed_intent of the   *)
(* response still has a null namespace.                                    *)
C17_NullNamespaceTargetsDefault ==
    (InList("parse_intent", ran) /\ st.intent.namespace = NULL) =>
        /\ \A i \in NamespacedCalls : TargetsDefault(calls[i])
        /\ (Done /\ response.parsed_intent # NoIntent) =>
               response.parsed_intent.namespace = NULL

\* the known namespaces that the text of a query names in the form
\* " in <namespace>"
InForms(q) ==
    {ns \in NamesOf(common_namespaces) :
        Contains(TextOf(q), <<" ", "i", "n", " ">> \o ns)}

\* the rule-based parser has been called on a query of that form
FallbackOnInForm == probe.fn = "_fallback_parse" /\ InForms(probe.q) # {}

(* C18: for a query that names a namespace in the form " in <namespace>"   *)
(* the intent of the rule-based parser has that namespace and a null       *)
(* resource_name: neither the namespace token nor any other token of the   *)
(* query is taken as the resource name.                                    *)
C18_InNamespaceBindsNoName ==
    FallbackOnInForm =>
        /\ probe.out.namespace \in InForms(probe.q)
        /\ probe.out.resource_name = NULL
        /\ \A k \in 1..Len(probe.q) :
               probe.out.resource_name # Chars(probe.q[k])

\* the completion of Parse failed, so that the rule-based parser supplied
\* the intent, or it carried the intent the prompt gives for the query
\* "show logs for backend pod"
ParsedAsPrompted ==
    \A i \in CallsOf("parse") :
        \/ calls[i].result # "json"
        \/ calls[i].said =
              [NoIntent EXCEPT !.resource_type = Chars("pods"),
                               !.action = Chars("logs"),
                               !.resource_name = Chars("backend"),
                               !.namespace = NULL, !.additional_flags = EMPTY]

\* Resolve was given a live pod list without "backend" and with
\* "backend-deployment-7f9c"
ListedDeploymentPod ==
    /\ InList("resolve_resources", ran)
    /\ \E i \in CallsOf("resolve") :
        /\ calls[i].result = "names"
        /\ ~InList(Chars("backend"), calls[i].listed)
        /\ InList(Chars("backend-deployment-7f9c"), calls[i].listed)

(* C19: for the query "show logs for backend pod" the intent that leaves   *)
(* Parse is pods, logs, "backend"; when the live pod list has no "backend" *)
(* but has "backend-deployment-7f9c", Resolve puts that name in the intent *)
(* and Execute asks for the logs of that name, not of "backend".           *)
C19_LogsOfResolvedPod ==
    (/\ query = <<"show", "logs", "for", "backend", "pod">>
     /\ InList("parse_intent", ran)
     /\ ParsedAsPrompted) =>
        /\ LeftParse =>
            /\ st.intent.resource_type = Chars("pods")
            /\ st.intent.action = Chars("logs")
            /\ st.intent.resource_name = Chars("backend")
        /\ ListedDeploymentPod =>
            /\ st.intent.resource_name = Chars("backend-deployment-7f9c")
            /\ InList("execute_kubectl", ran) =>
                /\ CallsOf("execute") # {}
                /\ \A j \in CallsOf("execute") :
                       /\ calls[j].op = "logs"
                       /\ calls[j].name = Chars("backend-deployment-7f9c")

\* Execute has been called on a logs intent that names no resource or a
\* resource type other than pods
LogsRequestInvalid ==
    /\ probe.fn = "_execute_kubectl"
    /\ probe.obj.action = Chars("logs")
    /\ \/ probe.obj.resource_name = NULL
       \/ probe.obj.resource_type # Chars("pods")

(* C20: an intent with action logs and a null resource_name, or with a     *)
(* resource_type other than pods, makes Execute answer with a local        *)
(* invalid-request error, without issuing any backend call.                *)
C20_InvalidLogsRequestIsLocal ==
    LogsRequestInvalid =>
        /\ probe.out.local
        /\ probe.out.call = <<>>
        /\ Truthy(probe.out.text)

\* the failure of the backend call is in the execution result: in the text
\* _execute_kubectl returned, or in the error field kubectl's node wrote
ExecErrorRecorded ==
    IF impl = K8sAssistant
    THEN /\ Truthy(st.kubectl)
         /\ st.kubectl[1] \in {"Error ", "Error executing Kubernetes operation: "}
    ELSE /\ Truthy(st.error)
         /\ st.error[1] \in {"kubectl error: ", "kubectl command timed out",
                              "Command execution failed: "}

(* C21: every failure of the backend call of Execute - a structured error  *)
(* such as not found or forbidden, a timeout, a backend that cannot be     *)
(* reached - is caught in the stage and recorded as the error of the       *)
(* execution result; the run goes on to the next stage and process_query   *)
(* returns its response.                                                   *)
C21_BackendFailureIsRecorded ==
    (InList("execute_kubectl", ran) /\ BackendFailed) =>
        /\ ExecErrorRecorded
        /\ ran[Len(ran)] = "execute_kubectl" => pc = "enhance_response"
        /\ pc \in {"enhance_response", "format_output", "respond", "done"}
        /\ Done => response.query = query

\* C21: the backend could not be reached, and the response was returned
\* with the failure in it
C21_Witness ==
    /\ Done
    /\ \E i \in CallsOf("execute") : calls[i].result = "unavailable"
    /\ ExecErrorRecorded

\* _calculate_age has returned for a timestamp e whole seconds before the
\* clock reading
AgeReturned(e) ==
    /\ probe.fn = "_calculate_age"
    /\ probe.obj.created.given
    /\ probe.obj.now - probe.obj.created.at = e

\* the elapsed whole seconds of the call that returned (e >= 0 is the
\* claim's case)
Elapsed == probe.obj.now - probe.obj.created.at

(* C22: over whole elapsed seconds e >= 0 the age is "{days}d" when e      *)
(* spans at least one full day; otherwise, with s the seconds within the   *)
(* day, "{s div 3600}h" when s > 3600, "{s div 60}m" when s > 60, and      *)
(* "{s}s" otherwise; a missing timestamp gives "Unknown".  90 minutes give *)
(* "1h", 30 seconds "30s", 2 days "2d".                                    *)
C22_AgeFormatting ==
    probe.fn = "_calculate_age" =>
        IF ~probe.obj.created.given
        THEN probe.out = <<"Unknown">>
        ELSE Elapsed >= 0 =>
             /\ Elapsed >= 86400 =>
                    probe.out = FormatInt(Elapsed \div 86400) \o <<"d">>
             /\ (Elapsed < 86400 /\ Elapsed > 3600) =>
                    probe.out = FormatInt(Elapsed \div 3600) \o <<"h">>
             /\ (Elapsed <= 3600 /\ Elapsed > 60) =>
                    probe.out = FormatInt(Elapsed \div 60) \o <<"m">>
             /\ Elapsed <= 60 => probe.out = FormatInt(Elapsed) \o <<"s">>
             /\ Elapsed = 5400 => probe.out = <<"1", "h">>
             /\ Elapsed = 30 => probe.out = <<"3", "0", "s">>
             /\ Elapsed = 172800 => probe.out = <<"2", "d">>
             /\ Elapsed = 3600 => probe.out = <<"6", "0", "m">>
             /\ Elapsed = 60 => probe.out = <<"6", "0", "s">>

\* C22: a timestamp 90 minutes old was formatted as "1h"
C22_Witness == AgeReturned(5400) /\ probe.out = <<"1", "h">>

\* C22: a timestamp exactly one hour old was formatted in minutes
C22_WitnessThreshold == AgeReturned(3600) /\ probe.out = <<"6", "0", "m">>

\* the state of the process_query call that is running
Running ==
    [query |-> query, pc |-> pc, st |-> st, route |-> route, ran |-> ran,
     calls |-> calls, terminals |-> terminals, response |-> response]

\* both calls in flight have returned
BothDone == pc = "done" /\ parked.pc = "done"

(* C23: two queries processed at the same time by the one assistant object *)
(* do not interfere.  A call enters its first node with a fresh workflow   *)
(* state; a node changes the state of the call it runs for and nothing     *)
(* else - not the other call's state, not the object; leaving one call for *)
(* the other exchanges the two states whole; and two calls with the same   *)
(* query and the same collaborator answers return the same response,       *)
(* however their nodes were interleaved.                                   *)
C23_ConcurrentQueriesDoNotInterfere ==
    /\ [](pc = "security_check" =>
              st = InitialState(impl) /\ calls = <<>> /\ ran = <<>>)
    /\ [][impl' = impl]_vars
    /\ [][\/ parked' = parked
          \/ parked' = Running /\ Running' = parked]_vars
    /\ []((BothDone /\ query = parked.query /\ calls = parked.calls) =>
              response = parked.response)

\* C23: a refused query and a query that went through every stage were in
\* flight together and both have been answered
C23_Witness ==
    /\ BothDone
    /\ query = <<"list", "all", "pods">>
    /\ parked.query = <<"delete", "pod", "backend">>
    /\ InList("execute_kubectl", ran)
    /\ response.success
    /\ ~parked.response.success

\* C23: the same query was in flight twice with the same collaborator
\* answers
C23_WitnessSameQuery ==
    /\ BothDone
    /\ query = <<"list", "all", "pods">>
    /\ parked.query = query
    /\ calls = parked.calls
    /\ InList("execute_kubectl", ran)

\* the place of a node in the order Security, Parse, Resolve, Execute,
\* Enhance, Format; the error terminal stands where Format stands, and the
\* return of process_query after every node
StageRank(node) ==
    CASE node = "security_check" -> 1
      [] node = "parse_intent" -> 2
      [] node = "resolve_resources" -> 3
      [] node = "execute_kubectl" -> 4
      [] node = "enhance_response" -> 5
      [] node \in {"format_output", "error_handler"} -> 6
      [] OTHER -> 7

\* the running query went from Parse on to Resolve: the gate and Parse let
\* it pass
PassedSecurityAndParse ==
    \E i \in 1..Len(ran) :
        /\ ran[i] = "parse_intent"
        /\ (IF i < Len(ran) THEN ran[i + 1] ELSE pc) = "resolve_resources"

\* how often a node has run for the running query
TimesRan(node) == Cardinality({i \in 1..Len(ran) : ran[i] = node})

(* C24: within one query the stages run in the order Security, Parse,      *)
(* Resolve, Execute, Enhance, Format: the nodes that ran stand in that     *)
(* order with none repeated, the first is Security, the node about to run  *)
(* comes later in the order than all that ran, and nothing is skipped      *)
(* between Parse and Enhance once Parse handed on to Resolve.  For a query *)
(* that passed Security and Parse, Execute has run exactly once when the   *)
(* response is returned, with at most one backend call and one result.     *)
C24_StagesRunInOrderOnce ==
    /\ \A i, j \in 1..Len(ran) :
           i < j => StageRank(ran[i]) < StageRank(ran[j])
    /\ ran # <<>> => ran[1] = "security_check"
    /\ (pc # "idle" /\ ran # <<>>) => StageRank(ran[Len(ran)]) < StageRank(pc)
    /\ \A i \in 1..Len(ran) :
           (i > 1 /\ StageRank(ran[i]) <= 5) =>
               StageRank(ran[i]) = StageRank(ran[i - 1]) + 1
    /\ InList("execute_kubectl", ran) => PassedSecurityAndParse
    /\ Cardinality(CallsOf("execute")) <= 1
    /\ (Done /\ PassedSecurityAndParse) =>
           /\ TimesRan("execute_kubectl") = 1
           /\ TimesRan("resolve_resources") = 1
           /\ TimesRan("enhance_response") = 1

\* C24: a query went through all stages and its one backend call of Execute
\* was answered
C24_Witness ==
    /\ Done
    /\ PassedSecurityAndParse
    /\ TimesRan("execute_kubectl") = 1
    /\ Cardinality(CallsOf("execute")) = 1
    /\ Len(ran) >= 5

\* Parse has just run for a query the gate let through
JustParsed == ran # <<>> /\ ran[Len(ran)] = "parse_intent"

\* the intent has its five fields: each of the keys is there (a name or a
\* namespace may be null)
FiveFields(intent) ==
    /\ intent.resource_type # ABSENT
    /\ intent.action # ABSENT
    /\ intent.resource_name # ABSENT
    /\ intent.namespace # ABSENT
    /\ intent.additional_flags # ABSENT

(* C25: for a query the gate let through, Parse diverts to the error       *)
(* terminal only when the object of the completion names a restricted      *)
(* resource or a banned action; after any other completion - an exception, *)
(* text without JSON, JSON with missing or extra keys - Parse hands on to   *)
(* Resolve an intent that has all five fields.                             *)
C25_ParseDivertsOnlyOnForbiddenIntent ==
    JustParsed =>
        /\ pc # "resolve_resources" => ParsedForbidden
        /\ ~ParsedForbidden =>
               /\ pc = "resolve_resources"
               /\ FiveFields(st.intent)

\* the step of the Resolve stage
ResolveRuns == pc = "resolve_resources" /\ pc' = "execute_kubectl"

\* no name of the list matches the partial name by any strategy: equal,
\* prefix and substring matches all contain it, the fuzzy categories apart
NoMatchIn(names, partial_name) ==
    \A x \in NamesOf(names) :
        /\ ~Contains(Lower(x), partial_name)
        /\ ~FuzzyHit(x, partial_name)

\* the live-list call this step of Resolve made failed, or returned a list
\* in which nothing matches the name the intent came with
ListFailedOrMatchless ==
    \E i \in (Len(calls) + 1)..Len(calls') :
        /\ calls'[i].stage = "resolve"
        /\ \/ calls'[i].result \in {"api_error", "exception"}
           \/ /\ calls'[i].result = "names"
              /\ NoMatchIn(calls'[i].listed, Lower(st.intent.resource_name))

(* C26: whenever Resolve runs for an intent with a name and its live-list  *)
(* call fails, or returns a list - possibly the empty one - in which no    *)
(* strategy finds a match, the intent leaves Resolve with the name it came *)
(* with and with a resolution note.                                        *)
C26_UnresolvedNameIsKeptWithNote ==
    [][(/\ ResolveRuns
        /\ st.intent # NoIntent
        /\ Truthy(st.intent.resource_name)
        /\ IsStr(st.intent.resource_name)
        /\ ListFailedOrMatchless) =>
           /\ st'.intent.resource_name = st.intent.resource_name
           /\ st'.intent.resolution_note # ABSENT]_vars

\* the live names a fuzzy category accepts for the requested name, and the
\* names the first non-exact strategy with any match collects
FuzzyIn == {x \in NamesOf(probe.names) : FuzzyHit(x, Requested)}
CollectedIn ==
    IF PrefixIn # {} THEN PrefixIn
    ELSE IF SubstringIn # {} THEN SubstringIn
    ELSE FuzzyIn

\* the resolver was called on a list with no exact match and several
\* matches of a non-exact strategy
SeveralMatches ==
    /\ ResolveReturned
    /\ ExactIn = {}
    /\ Cardinality(CollectedIn) >= 2

(* C27: when a non-exact strategy collects several matches, the name       *)
(* selected is one of them and none of them is shorter, resolved_from is   *)
(* the partial name, and other_matches holds at most 4 of the matches that *)
(* were not selected - never the selected name.                            *)
C27_RunnerUpsExcludeTheSelected ==
    SeveralMatches =>
        /\ Picked \in CollectedIn
        /\ \A x \in CollectedIn : Len(Picked) <= Len(x)
        /\ probe.out.intent.resolved_from = Requested
        /\ probe.out.intent.other_matches # ABSENT
        /\ Len(probe.out.intent.other_matches) <= 4
        /\ NamesOf(probe.out.intent.other_matches) \subseteq
               CollectedIn \ {Picked}

\* the names the list calls of this step of Resolve returned for the
\* resource type of the intent
ListedNow ==
    UNION {NamesOf(calls'[i].listed) :
             i \in {j \in (Len(calls) + 1)..Len(calls') :
                       /\ calls'[j].stage = "resolve"
                       /\ calls'[j].result = "names"
                       /\ calls'[j].rtype = st.intent.resource_type}}

(* C28: after the Resolve stage the intent's resource_name is the value it *)
(* had when Resolve started or a name of the live list the cluster         *)
(* returned for the intent's resource type; resource_type, action and      *)
(* namespace are what they were.                                           *)
C28_ResolveInventsNothing ==
    [][(ResolveRuns /\ st.intent # NoIntent) =>
           /\ \/ st'.intent.resource_name = st.intent.resource_name
              \/ st'.intent.resource_name \in ListedNow
           /\ st'.intent.resource_type = st.intent.resource_type
           /\ st'.intent.action = st.intent.action
           /\ st'.intent.namespace = st.intent.namespace]_vars

\* C28: Resolve has replaced the partial name "backend" by a longer name of
\* the list it was given
C28_Witness ==
    /\ pc = "execute_kubectl"
    /\ \E i \in CallsOf("resolve") :
           /\ calls[i].result = "names"
           /\ st.intent.resource_name \in NamesOf(calls[i].listed)
    /\ st.intent.resource_name # Chars("backend")
    /\ Contains(Lower(st.intent.resource_name), Chars("backend"))

\* process_query has returned a response envelope for the query it was
\* given
EnvelopeReturned ==
    /\ Done
    /\ response.query = query
    /\ response.success \in BOOLEAN

(* C29: process_query always comes to an end with a response envelope and  *)
(* never raises: whatever the query and whatever the collaborators do, a   *)
(* started call returns a dict whose query field is the query given and    *)
(* whose success field is a boolean.                                       *)
C29_AlwaysAnEnvelope ==
    /\ [](Done => EnvelopeReturned)
    /\ (pc # "idle") ~> EnvelopeReturned

\* C29: every collaborator failed - the completion of Parse raised, the
\* backend of Execute could not be reached - and the envelope was returned
C29_Witness ==
    /\ EnvelopeReturned
    /\ \E i \in CallsOf("parse") : calls[i].result = "raise"
    /\ \E i \in CallsOf("execute") : calls[i].result = "unavailable"
    /\ query # <<>>

\* _execute_kubectl was called with a supported resource type and an action
\* that reads it: list or get, or describe of a named resource
DispatchableRequest ==
    /\ probe.fn = "_execute_kubectl"
    /\ InList(probe.obj.resource_type, supported_resources)
    /\ \/ probe.obj.action \in {Chars("list"), Chars("get")}
       \/ /\ probe.obj.action = Chars("describe")
          /\ Truthy(probe.obj.resource_name)

(* C30: every resource type of the supported set can be dispatched: for a  *)
(* supported resource_type, list or get - and describe with a name - makes *)
(* Execute issue a backend call for that resource type, not answer with a  *)
(* local "not supported" or "requires a specific resource name" error.     *)
C30_SupportedTypesAreDispatched ==
    DispatchableRequest =>
        /\ ~probe.out.local
        /\ Len(probe.out.call) = 1
        /\ probe.out.call[1].rtype = probe.obj.resource_type

====
